---- MODULE Spec2Model ----
(***************************************************************************)
(* A model of nx2elf (src/nx2elf.cpp): the container loader (NSO, NRO, raw *)
(* MOD), the PLT resolver, the ELF emitter, the uncompressed-NSO writer    *)
(* and the StringTable.  Buffers are sequences of bytes (0..255); byte at  *)
(* offset a of buffer b is b[a + 1].  Multi-byte fields are little-endian. *)
(***************************************************************************)
EXTENDS Integers, Sequences, FiniteSets, TLC

(***************************************************************************)
(* Program constants.                                                      *)
(***************************************************************************)
SizeofNsoHeader == 256
SizeofNroHeader == 112
SizeofModPointer == 8
SizeofModHeader == 28
SizeofElf64_Dyn == 16
SizeofElf64_Sym == 24
SizeofElf64_Rela == 24
SizeofElf64_Ehdr == 64
SizeofElf64_Phdr == 56
SizeofElf64_Shdr == 64
SizeofElf64_Nhdr == 12
kNumSegment == 3
kText == 0
kRodata == 1
kData == 2
SHN_UNDEF == 0
SHN_LORESERVE == 65280
STT_SECTION == 3
STB_LOCAL == 0
R_AARCH64_GLOB_DAT == 1025
R_AARCH64_JUMP_SLOT == 1026
DT_PLTRELSZ == 2
DT_PLTGOT == 3
DT_HASH == 4
DT_STRTAB == 5
DT_SYMTAB == 6
DT_RELA == 7
DT_RELASZ == 8
DT_STRSZ == 10
DT_INIT == 12
DT_FINI == 13
DT_JMPREL == 23
DT_INIT_ARRAY == 25
DT_FINI_ARRAY == 26
DT_INIT_ARRAYSZ == 27
DT_FINI_ARRAYSZ == 28
DT_GNU_HASH == 1879047925

\* Field offsets of the packed structs.
NsoHeaderOff ==
  [magic |-> 0, field_4 |-> 4, field_8 |-> 8, flags |-> 12, segments |-> 16,
   gnu_build_id |-> 64, segment_file_sizes |-> 96, field_6c |-> 108,
   dynstr |-> 144, dynsym |-> 152, segment_digests |-> 160]
SegmentHeaderOff == [file_offset |-> 0, mem_offset |-> 4, mem_size |-> 8, bss_align |-> 12, sizeof |-> 16]
NroHeaderOff ==
  [magic |-> 0, field_4 |-> 4, file_size |-> 8, field_c |-> 12, segments |-> 16,
   bss_size |-> 40, field_3c |-> 44, gnu_build_id |-> 48, field_60 |-> 80,
   dynstr |-> 96, dynsym |-> 104]
ModHeaderOff ==
  [magic |-> 0, dynamic_offset |-> 4, bss_start_offset |-> 8, bss_end_offset |-> 12,
   eh_start_offset |-> 16, eh_end_offset |-> 20, module_object_offset |-> 24]

nso_magic == <<78, 83, 79, 48>>
nro_magic == <<78, 82, 79, 48>>
mod_magic == <<77, 79, 68, 48>>

(***************************************************************************)
(* Bytes and little-endian fields.                                         *)
(***************************************************************************)
\* The sequence f as a tuple of its elements, each computed once.
Bytes(f) == f \o <<>>
Zeros(n) == Bytes([i \in 1..n |-> 0])
Slice(buf, a, n) == SubSeq(buf, a + 1, a + n)
InBuf(buf, a, n) == a >= 0 /\ n >= 0 /\ a + n <= Len(buf)
\* No value: TLC stops with an error when it has to evaluate it.  It stands
\* where the C++ has no defined result that this model represents.
Undefined == CHOOSE x \in {} : TRUE
\* memcpy(&buf[a], bytes, Len(bytes)); a copy that leaves the buffer is
\* undefined behaviour, which the callers model where their inputs reach it.
Patch(buf, a, bytes) ==
  IF InBuf(buf, a, Len(bytes))
  THEN SubSeq(buf, 1, a) \o bytes \o SubSeq(buf, a + Len(bytes) + 1, Len(buf))
  ELSE Undefined
\* static_cast<u32>(x), for the values this model can hold (0 <= x < 2^31).
U32(x) == IF x >= 0 THEN x ELSE Undefined

RdU8(buf, a) == buf[a + 1]
RdU16(buf, a) == buf[a + 1] + 256 * buf[a + 2]
RdU32(buf, a) == buf[a + 1] + 256 * buf[a + 2] + 65536 * buf[a + 3] + 16777216 * buf[a + 4]
RdS32(buf, a) ==
  buf[a + 1] + 256 * buf[a + 2] + 65536 * buf[a + 3]
    + 16777216 * (IF buf[a + 4] >= 128 THEN buf[a + 4] - 256 ELSE buf[a + 4])
\* The high word is multiplied by 2^32 (in two steps).
RdU64(buf, a) == RdU32(buf, a) + RdU32(buf, a + 4) * 65536 * 65536

U8LE(v) == <<v % 256>>
U16LE(v) == <<v % 256, (v \div 256) % 256>>
U32LE(v) == <<v % 256, (v \div 256) % 256, (v \div 65536) % 256, (v \div 16777216) % 256>>
\* A negative v stands for the u64 value 2^64 + v.
U64LE(v) == U32LE(v) \o (IF v < 0 THEN <<255, 255, 255, 255>> ELSE <<0, 0, 0, 0>>)
S32LE(v) ==
  IF v >= 0 THEN U32LE(v)
  ELSE <<v % 256, (v \div 256) % 256, (v \div 65536) % 256, ((v \div 16777216) % 256)>>

ALIGN_UP(x, a) == ((x + a - 1) \div a) * a
\* The NroHeader follows the ModPointer, aligned.
nro_offset == ALIGN_UP(SizeofModPointer, 16)
Max(a, b) == IF a >= b THEN a ELSE b
\* v has been computed: the steps of a loop are taken one after the other.
Done(v) == v = v
\* The value of the last of the steps of a computation.  The steps are
\* listed in program order, and evaluated in that order.
InOrder(steps) == steps[Len(steps)]

\* Bitwise AND of two bytes.
Bit(x, b) == (x \div (2 ^ b)) % 2
ByteAnd(x, y) ==
  Bit(x, 0) * Bit(y, 0) + 2 * Bit(x, 1) * Bit(y, 1) + 4 * Bit(x, 2) * Bit(y, 2)
    + 8 * Bit(x, 3) * Bit(y, 3) + 16 * Bit(x, 4) * Bit(y, 4) + 32 * Bit(x, 5) * Bit(y, 5)
    + 64 * Bit(x, 6) * Bit(y, 6) + 128 * Bit(x, 7) * Bit(y, 7)

(***************************************************************************)
(* Input files.  A module image is assembled from its parts; the           *)
(* parameter record p selects the variation.  rb is the address of         *)
(* .rodata (the small layout for NSO and NRO, the page-aligned one for a   *)
(* raw MOD).                                                               *)
(***************************************************************************)
Lay(rb) ==
  [mod |-> 128, init |-> 160, fini |-> 168, plt |-> 176, plt2 |-> 224, text_end |-> 256,
   rodata |-> rb, dynsym |-> rb, dynstr |-> rb + 144, rela |-> rb + 152,
   jmprel |-> rb + 200, hash |-> rb + 224, gnu_hash |-> rb + 240, note |-> rb + 288,
   eh_hdr |-> rb + 320, eh_hdr_end |-> rb + 332, eh_frame |-> rb + 336,
   rodata_plt |-> rb + 352, rodata_end |-> rb + 384,
   data |-> rb + 384, dynamic |-> rb + 384, pltgot |-> rb + 656, got |-> rb + 688,
   init_array |-> rb + 704, fini_array |-> rb + 712, data_end |-> rb + 720,
   bss |-> rb + 720, bss_end |-> rb + 736]

\* pieces: a sequence of <<offset, bytes>>; later pieces overwrite earlier ones.
Assemble(n, pieces) ==
  Bytes([i \in 1..n |->
     LET cov == {k \in 1..Len(pieces) :
                   pieces[k][1] < i /\ i <= pieces[k][1] + Len(pieces[k][2])}
     IN  IF cov = {} THEN 0
         ELSE LET k == CHOOSE k \in cov : \A j \in cov : j <= k
              IN  pieces[k][2][i - pieces[k][1]]])

\* The pieces lo..hi of seqs, one after the other.
RECURSIVE ConcatRange(_, _, _)
ConcatRange(seqs, lo, hi) ==
  IF lo > hi THEN <<>>
  ELSE IF lo = hi THEN seqs[lo]
  ELSE ConcatRange(seqs, lo, (lo + hi) \div 2) \o ConcatRange(seqs, (lo + hi) \div 2 + 1, hi)
Concat(seqs) == ConcatRange(seqs, 1, Len(seqs))

DynBytes(tag, val) == U64LE(tag) \o U64LE(val)
SymBytes(s) ==
  U32LE(s.name) \o U8LE(s.info) \o U8LE(s.other) \o U16LE(s.shndx)
    \o U64LE(s.value) \o U64LE(s.size)
RelaBytes(offset, type, sym, addend) ==
  U64LE(offset) \o U32LE(type) \o U32LE(sym) \o U64LE(addend)

\* The resolver thunk as the linker emits it, and one PLT entry.
PltResolverBytes ==
  <<240, 123, 191, 169,  208, 4, 0, 208,  17, 138, 66, 249,  16, 66, 20, 145,
    32, 2, 31, 214,  31, 32, 3, 213,  31, 32, 3, 213,  31, 32, 3, 213>>
\* The same thunk with other operands in the masked-out positions.
PltResolverBytes2 ==
  <<240, 123, 191, 169,  144, 0, 0, 176,  17, 2, 64, 249,  16, 2, 0, 145,
    32, 2, 31, 214,  31, 32, 3, 213,  31, 32, 3, 213,  31, 32, 3, 213>>
PltEntryBytes ==
  <<16, 0, 0, 144,  17, 2, 64, 249,  16, 2, 0, 145,  32, 2, 31, 214>>
NopWord == <<31, 32, 3, 213>>
RetWord == <<192, 3, 95, 214>>
BranchWord == <<1, 0, 0, 20>>

NullSym == [name |-> 0, info |-> 0, other |-> 0, shndx |-> 0, value |-> 0, size |-> 0]
Sym(info, shndx, value) ==
  [name |-> 1, info |-> info, other |-> 0, shndx |-> shndx, value |-> value, size |-> 4]

\* The six symbols of .dynsym for each variation of the st_shndx values.
Symbols(kind, L) ==
  LET func == Sym(18, 1, L.init)
      ro   == Sym(17, 2, L.dynstr)
      sect == Sym(3, 3, L.data)
      bss  == Sym(17, 4, L.bss)
      und  == Sym(18, 0, 0)
  IN  CASE kind = "four"     -> <<NullSym, func, ro, sect, bss, und>>
        [] kind = "nosect"   -> <<NullSym, func, ro, Sym(17, 3, L.data), bss, und>>
        [] kind = "sectzero" -> <<NullSym, func, ro, Sym(3, 3, 0), bss, und>>
        [] kind = "three"    -> <<NullSym, func, ro, sect, Sym(17, 3, L.got), und>>
        [] kind = "five"     -> <<NullSym, func, ro, sect, bss, Sym(18, 5, L.fini)>>
        [] kind = "textonly" -> <<NullSym, func, Sym(18, 1, L.fini), und, und, und>>
        [] kind = "none"     -> <<NullSym, und, und, und, und, und>>
        [] kind = "dup"      -> <<NullSym, func, ro, sect, Sym(18, 5, L.fini), und>>

DynEntries(p, L) ==
  <<  <<DT_PLTGOT, IF p.pltgot THEN L.pltgot ELSE 0>>,
      <<DT_PLTRELSZ, p.pltrelsz>>,
      <<DT_JMPREL, IF p.jmprel THEN L.jmprel ELSE 0>>,
      <<DT_HASH, IF p.hash THEN L.hash ELSE 0>>,
      <<DT_GNU_HASH, IF p.gnu_hash THEN L.gnu_hash ELSE 0>>,
      <<DT_STRTAB, IF p.symtab_after THEN L.dynsym ELSE L.dynstr>>,
      <<DT_SYMTAB, IF p.symtab_after THEN L.dynstr ELSE L.dynsym>>,
      <<DT_RELA, IF p.rela THEN L.rela ELSE 0>>,
      <<DT_RELASZ, 2 * SizeofElf64_Rela>>,
      <<DT_STRSZ, 8>>,
      <<DT_INIT, IF p.init THEN L.init ELSE 0>>,
      <<DT_FINI, IF p.fini THEN L.fini ELSE 0>>,
      <<DT_INIT_ARRAY, IF p.init_array THEN L.init_array ELSE 0>>,
      <<DT_INIT_ARRAYSZ, p.init_arraysz>>,
      <<DT_FINI_ARRAY, IF p.fini_array THEN L.fini_array ELSE 0>>,
      <<DT_FINI_ARRAYSZ, p.fini_arraysz>>  >>

\* The first ndyn entries of the table, then the terminator.
DynamicBytes(p, L) ==
  LET es == DynEntries(p, L)
  IN  Concat([k \in 1..p.ndyn |-> DynBytes(es[k][1], es[k][2])]) \o DynBytes(0, 0)

NoteBytes == U32LE(4) \o U32LE(16) \o U32LE(3) \o <<71, 78, 85, 0>> \o [i \in 1..16 |-> 160 + i]
EhHdrBytes(p, L) ==
  <<(IF p.eh THEN 1 ELSE 0), 27, 3, 59>> \o S32LE(L.eh_frame - (L.eh_hdr + 4)) \o U32LE(0)
EhFrameBytes == U32LE(4) \o U32LE(0) \o U32LE(0)

ModHeaderBytes(p, L) ==
  LET dyn == IF p.dyn_at = "bss" THEN L.bss ELSE L.dynamic
  IN  (IF p.mod_magic THEN mod_magic ELSE <<77, 79, 68, 49>>)
        \o S32LE(dyn - L.mod) \o S32LE(L.bss - L.mod) \o S32LE(L.bss_end - L.mod)
        \o S32LE(L.eh_hdr - L.mod) \o S32LE(L.eh_hdr_end - L.mod) \o S32LE(0)

\* The module image up to the end of .data (without the BSS).
ModuleImage(p) ==
  LET L == Lay(p.rb)
      syms == Symbols(p.syms, L)
  IN  Assemble(L.data_end,
        << <<0, U32LE(0) \o U32LE(L.mod)>>,
           <<L.mod, ModHeaderBytes(p, L)>>,
           <<L.init, NopWord \o (IF p.init_ret THEN RetWord ELSE NopWord)>>,
           <<L.fini, BranchWord>>,
           <<L.text_end - 8, <<238, 238, 238, 238, 238, 238, 238, 238>> >>,
           <<L.plt, CASE p.plt = "text" -> PltResolverBytes \o PltEntryBytes
                      [] p.plt = "twice" -> PltResolverBytes2 \o PltEntryBytes \o PltResolverBytes
                      [] OTHER -> <<>> >>,
           <<L.dynsym, Concat([k \in 1..6 |-> SymBytes(syms[k])])>>,
           <<L.dynstr, <<0, 97, 0, 98, 0, 99, 0, 0>> >>,
           <<L.rela, RelaBytes(L.got + 8, R_AARCH64_GLOB_DAT, 2, 0)
                       \o RelaBytes(L.init_array, 1027, 0, L.init)>>,
           <<L.jmprel, RelaBytes(IF p.slot_at = "dynamic" THEN L.dynamic ELSE L.pltgot + 24,
                                 p.slot_type, 5, 0)>>,
           <<L.hash, U32LE(1) \o U32LE(1) \o U32LE(0) \o U32LE(0)>>,
           <<L.gnu_hash, U32LE(1) \o U32LE(1) \o U32LE(1) \o U32LE(0)>>,
           <<L.note, IF p.note THEN NoteBytes ELSE <<>> >>,
           <<L.eh_hdr, EhHdrBytes(p, L)>>,
           <<L.eh_frame, EhFrameBytes>>,
           <<L.rodata_plt, IF p.plt = "rodata" THEN PltResolverBytes ELSE <<>> >>,
           <<L.dynamic, DynamicBytes(p, L)>>,
           <<L.pltgot, U64LE(L.dynamic) \o U64LE(0) \o U64LE(0) \o U64LE(L.plt)>>,
           <<L.got, IF p.got_ptr THEN U64LE(L.dynamic) ELSE U64LE(0)>>,
           <<L.init_array, U64LE(L.init)>>,
           <<L.fini_array, U64LE(L.fini)>> >>)

\* The default variation: every structure present and well formed.
P0 ==
  [rb |-> 256, plt |-> "text", pltrelsz |-> 24, jmprel |-> TRUE, slot_type |-> 1026,
   pltgot |-> TRUE, hash |-> TRUE, gnu_hash |-> TRUE, symtab_after |-> FALSE, rela |-> TRUE,
   init |-> TRUE, fini |-> TRUE, init_array |-> TRUE, init_arraysz |-> 8,
   fini_array |-> TRUE, fini_arraysz |-> 8, ndyn |-> 16, note |-> TRUE, eh |-> TRUE,
   dyn_at |-> "data", mod_magic |-> TRUE, init_ret |-> TRUE, got_ptr |-> TRUE,
   syms |-> "four", slot_at |-> "pltgot"]

\* The default NSO container: nothing compressed, sizes as in the image.
C0 ==
  [flags |-> 0, kinds |-> <<"none", "none", "none">>, text_mem_size |-> 256,
   text_file_size |-> 256, text_align |-> 4096, rodata_align |-> 4096, bss |-> 16,
   dynsym_size |-> 144]

NsoSegs(p, c) ==
  LET L == Lay(p.rb)
  IN  << [mem_offset |-> 0, mem_size |-> c.text_mem_size, file_size |-> c.text_file_size,
          bss_align |-> c.text_align],
         [mem_offset |-> L.rodata, mem_size |-> L.rodata_end - L.rodata,
          file_size |-> L.rodata_end - L.rodata, bss_align |-> c.rodata_align],
         [mem_offset |-> L.data, mem_size |-> L.data_end - L.data,
          file_size |-> L.data_end - L.data, bss_align |-> c.bss] >>

\* An NSO file: the header, then the segments at 256 + mem_offset.  A
\* compressed segment is an 8-byte block there.
NsoFileBytes(p, c) ==
  LET segs == NsoSegs(p, c)
      seg(i) == U32LE(SizeofNsoHeader + segs[i].mem_offset) \o U32LE(segs[i].mem_offset)
                  \o U32LE(segs[i].mem_size) \o U32LE(segs[i].bss_align)
      fsz(i) == U32LE(IF c.kinds[i] = "none" THEN segs[i].file_size ELSE 8)
      hdr == Assemble(SizeofNsoHeader,
               << <<NsoHeaderOff.magic, nso_magic>>,
                  <<NsoHeaderOff.field_4, U32LE(17) \o U32LE(34) \o U32LE(c.flags)>>,
                  <<NsoHeaderOff.segments, seg(1) \o seg(2) \o seg(3)>>,
                  <<NsoHeaderOff.gnu_build_id, [i \in 1..32 |-> 160 + i]>>,
                  <<NsoHeaderOff.segment_file_sizes, fsz(1) \o fsz(2) \o fsz(3)>>,
                  <<NsoHeaderOff.field_6c, [i \in 1..36 |-> i]>>,
                  <<NsoHeaderOff.dynstr,
                    U32LE(144) \o U32LE(8) \o U32LE(0) \o U32LE(c.dynsym_size)>>,
                  <<NsoHeaderOff.segment_digests, [i \in 1..96 |-> 100 + i]>> >>)
  IN  hdr \o ModuleImage(p)

\* What the decoder does on each segment of NsoFileBytes(p, c).
Lz4Oracle(p, c) ==
  LET segs == NsoSegs(p, c)
      img == ModuleImage(p)
      o(i) == CASE c.kinds[i] = "exact" ->
                     [ret |-> segs[i].mem_size,
                      out |-> Slice(img, segs[i].mem_offset, segs[i].mem_size)]
                [] c.kinds[i] = "short" ->
                     [ret |-> segs[i].mem_size - 8,
                      out |-> Slice(img, segs[i].mem_offset, segs[i].mem_size - 8)]
                [] c.kinds[i] = "error" -> [ret |-> 0 - 1, out |-> <<>>]
                [] OTHER -> [ret |-> 0, out |-> <<>>]
  IN  <<o(1), o(2), o(3)>>
NoLz4 == [i \in 1..3 |-> [ret |-> 0, out |-> <<>>]]

\* An NRO file: the image with an NroHeader at offset 16.  data_extra is
\* added to the size the header declares for .data, size_delta to file_size.
NroFileBytes(p, data_extra, size_delta, bss_size) ==
  LET L == Lay(p.rb)
      img == ModuleImage(p)
      nro == nro_magic \o U32LE(0) \o U32LE(Len(img) + size_delta) \o U32LE(0)
               \o U32LE(0) \o U32LE(L.text_end)
               \o U32LE(L.rodata) \o U32LE(L.rodata_end - L.rodata)
               \o U32LE(L.data) \o U32LE(L.data_end - L.data + data_extra)
               \o U32LE(bss_size) \o U32LE(0) \o [i \in 1..32 |-> 160 + i]
               \o Zeros(16) \o U32LE(144) \o U32LE(8) \o U32LE(0) \o U32LE(144)
  IN  Patch(img, nro_offset, nro)

(***************************************************************************)
(* Helpers of types.h and the LZ4 decoder, which the loader calls.         *)
(***************************************************************************)
NULL == -1

\* memmem_m(hay, len, needle, mask, n): offset (from the start of buf) of the
\* first position in [base, base + len) where the needle matches under the
\* mask, or NULL.
memmem_m(buf, base, len, needle, mask) ==
  LET n == Len(needle)
      hits == {i \in base..(base + len - n) :
                 \A j \in 1..n : ByteAnd(buf[i + j], mask[j]) = ByteAnd(needle[j], mask[j])}
  IN  IF hits = {} THEN NULL ELSE CHOOSE i \in hits : \A k \in hits : i <= k

\* memmem: first occurrence of the needle in [base, base + len).
memmem(buf, base, len, needle) ==
  LET n == Len(needle)
      hits == {i \in base..(base + len - n) : \A j \in 1..n : buf[i + j] = needle[j]}
  IN  IF hits = {} THEN NULL ELSE CHOOSE i \in hits : \A k \in hits : i <= k

\* memmemr: last occurrence of the needle in [base, base + len).
memmemr(buf, base, len, needle) ==
  LET n == Len(needle)
      hits == {i \in base..(base + len - n) : \A j \in 1..n : buf[i + j] = needle[j]}
  IN  IF hits = {} THEN NULL ELSE CHOOSE i \in hits : \A k \in hits : i >= k

\* LZ4_decompress_safe: the decoder is external; o is what it does on this
\* block: o.ret is its return value (negative on a malformed block, else the
\* number of bytes decoded, never more than dst_len) and o.out the bytes it
\* wrote to dst.
LZ4_decompress_safe(o, dst_len) == o

(***************************************************************************)
(* NsoFile: accessors of the header, a 256-byte NsoHeader.                  *)
(***************************************************************************)
SegOff(i) == NsoHeaderOff.segments + SegmentHeaderOff.sizeof * i
SegFileOffset(h, i) == RdU32(h, SegOff(i) + SegmentHeaderOff.file_offset)
SegMemOffset(h, i) == RdU32(h, SegOff(i) + SegmentHeaderOff.mem_offset)
SegMemSize(h, i) == RdU32(h, SegOff(i) + SegmentHeaderOff.mem_size)
SegBssAlign(h, i) == RdU32(h, SegOff(i) + SegmentHeaderOff.bss_align)
SegFileSize(h, i) == RdU32(h, NsoHeaderOff.segment_file_sizes + 4 * i)
HdrFlags(h) == RdU32(h, NsoHeaderOff.flags)
\* header.flags & (1 << i)
FlagBit(flags, i) == (flags \div (2 ^ i)) % 2
SetSeg(h, i, file_offset, mem_offset, mem_size, bss_align) ==
  Patch(h, SegOff(i), U32LE(file_offset) \o U32LE(mem_offset) \o U32LE(mem_size) \o U32LE(bss_align))
SetSegFileSize(h, i, v) == Patch(h, NsoHeaderOff.segment_file_sizes + 4 * i, U32LE(v))

\* NsoFile nso; the members with an initializer are zero, plt_info has none
\* and holds whatever the stack held (garbage).
NsoFileNew(garbage) ==
  [file_type |-> "kUnknown", header |-> Zeros(SizeofNsoHeader), image |-> <<>>,
   dynamic |-> 0, note |-> NULL,
   dyn_info |-> [symtab |-> 0, rela |-> 0, relasz |-> 0, jmprel |-> 0, pltrelsz |-> 0,
                 strtab |-> 0, strsz |-> 0, pltgot |-> 0, hash |-> 0, gnu_hash |-> 0,
                 init |-> 0, fini |-> 0, init_array |-> 0, init_arraysz |-> 0,
                 fini_array |-> 0, fini_arraysz |-> 0],
   plt_info |-> [addr |-> garbage, size |-> garbage],
   eh_info |-> [hdr_addr |-> 0, hdr_size |-> 0, frame_addr |-> 0, frame_size |-> 0],
   plt_found |-> FALSE]

\* bool Decompress(dst, dst_len, src, src_len)
Decompress(o, dst_len) ==
  LET r == LZ4_decompress_safe(o, dst_len) IN [ok |-> r.ret > 0, out |-> r.out]

plt_pattern == PltResolverBytes
plt_mask ==
  <<255, 255, 255, 255,  0, 0, 0, 0,  0, 0, 0, 255,  0, 0, 0, 255,
    0, 0, 0, 255,  255, 255, 255, 255,  255, 255, 255, 255,  255, 255, 255, 255>>

\* ResolvePlt with a resolver thunk counted as one slot, not two.
ResolvePltWrongSize(n, base, len) ==
  LET found == IF n.dyn_info.pltrelsz # 0
               THEN memmem_m(n.image, base, len, plt_pattern, plt_mask) ELSE NULL
  IN  IF found # NULL
      THEN [n EXCEPT !.plt_info = [addr |-> found,
                                   size |-> 16 + 16 * (n.dyn_info.pltrelsz \div SizeofElf64_Rela)],
                     !.plt_found = TRUE]
      ELSE [n EXCEPT !.plt_found = FALSE]
\* bool ResolvePlt(base, len): the value returned (plt_found) and plt_info
\* afterwards.
ResolvePlt(n, base, len) ==
  LET found == IF n.dyn_info.pltrelsz # 0
               THEN memmem_m(n.image, base, len, plt_pattern, plt_mask) ELSE NULL
      plt_entry_count == n.dyn_info.pltrelsz \div SizeofElf64_Rela
      plt_entry_size == 4 * 4
  IN  IF found # NULL
      THEN [n EXCEPT !.plt_info = [addr |-> found,
                                   size |-> plt_entry_size * 2 + plt_entry_size * plt_entry_count],
                     !.plt_found = TRUE]
      ELSE [n EXCEPT !.plt_found = FALSE]

(***************************************************************************)
(* StringTable.  A const char* is <<s, a>>: the string s it points to and  *)
(* what tells its address from that of another pointer to an equal string  *)
(* (0 when the build stores equal literals once).  entries is keyed by the *)
(* pointer, as std::unordered_map<const char*, u32> is.                    *)
(***************************************************************************)
\* The characters of the strings the program uses.
CharsOf(name) ==
  CASE name = ".shstrtab" -> <<46, 115, 104, 115, 116, 114, 116, 97, 98>>
    [] name = ".text" -> <<46, 116, 101, 120, 116>>
    [] name = ".rodata" -> <<46, 114, 111, 100, 97, 116, 97>>
    [] name = ".data" -> <<46, 100, 97, 116, 97>>
    [] name = ".bss" -> <<46, 98, 115, 115>>
    [] name = ".dynstr" -> <<46, 100, 121, 110, 115, 116, 114>>
    [] name = ".dynsym" -> <<46, 100, 121, 110, 115, 121, 109>>
    [] name = ".dynamic" -> <<46, 100, 121, 110, 97, 109, 105, 99>>
    [] name = ".rela.dyn" -> <<46, 114, 101, 108, 97, 46, 100, 121, 110>>
    [] name = ".eh_frame_hdr" -> <<46, 101, 104, 95, 102, 114, 97, 109, 101, 95, 104, 100, 114>>
    [] name = ".eh_frame" -> <<46, 101, 104, 95, 102, 114, 97, 109, 101>>
    [] name = ".plt" -> <<46, 112, 108, 116>>
    [] name = ".got" -> <<46, 103, 111, 116>>
    [] name = ".got.plt" -> <<46, 103, 111, 116, 46, 112, 108, 116>>
    [] name = ".rela.plt" -> <<46, 114, 101, 108, 97, 46, 112, 108, 116>>
    [] name = ".hash" -> <<46, 104, 97, 115, 104>>
    [] name = ".gnu.hash" -> <<46, 103, 110, 117, 46, 104, 97, 115, 104>>
    [] name = ".init" -> <<46, 105, 110, 105, 116>>
    [] name = ".fini" -> <<46, 102, 105, 110, 105>>
    [] name = ".init_array" -> <<46, 105, 110, 105, 116, 95, 97, 114, 114, 97, 121>>
    [] name = ".fini_array" -> <<46, 102, 105, 110, 105, 95, 97, 114, 114, 97, 121>>
    [] name = ".note" -> <<46, 110, 111, 116, 101>>
    [] name = "" -> <<>>
strlen(ptr) == Len(CharsOf(ptr[1]))

\* The literal s written at source line `line`, in a build that pools equal
\* literals or in one that does not.
Lit(s, line, pooled) == <<s, IF pooled THEN 0 ELSE line>>

\* void AddString(const char* str)
AddString(st, str) ==
  IF str \in DOMAIN st.entries THEN st
  ELSE [entries |-> [q \in DOMAIN st.entries \cup {str} |->
                       IF q = str THEN st.watermark ELSE st.entries[q]],
        watermark |-> st.watermark + strlen(str) + 1]

\* u32 GetOffset(const char* str)
GetOffset(st, str) == IF str \in DOMAIN st.entries THEN st.entries[str] ELSE 0

\* StringTable() { AddString(""); }
StringTableNew(pooled) ==
  AddString([entries |-> [q \in {} |-> 0], watermark |-> 0], Lit("", 66, pooled))

\* std::vector<char> GetBuffer()
GetBuffer(st) ==
  Bytes([i \in 1..st.watermark |->
     LET hit == {q \in DOMAIN st.entries :
                   st.entries[q] < i /\ i <= st.entries[q] + strlen(q)}
     IN  IF hit = {} THEN 0
         ELSE LET q == CHOOSE q \in hit : TRUE IN CharsOf(q[1])[i - st.entries[q]]])

\* The size without the rounding.
StringTableSizeUnaligned(st) == st.watermark

\* Finalize(): size = ALIGN_UP(buffer.size(), 0x10)
StringTableSize(st) == ALIGN_UP(st.watermark, 16)

(***************************************************************************)
(* NsoFile::Load                                                           *)
(***************************************************************************)
\* One round of the segment loop of the NSO branch; r = [ok, n].
LoadNsoSegment(r, file, lz4, i) ==
  IF ~r.ok THEN r
  ELSE LET h == r.n.header
       IN  IF FlagBit(HdrFlags(h), i) # 0
           THEN LET d == Decompress(lz4[i + 1], SegMemSize(h, i))
                IN  [ok |-> d.ok,
                     n |-> [r.n EXCEPT !.image = Patch(@, SegMemOffset(h, i), d.out)]]
           ELSE [ok |-> TRUE,
                 n |-> [r.n EXCEPT !.image =
                          Patch(@, SegMemOffset(h, i),
                                Slice(file, SegFileOffset(h, i), SegFileSize(h, i)))]]

LoadNsoDone(r) == [ok |-> r.ok, n |-> [r.n EXCEPT !.file_type = "kNso"]]
LoadNso(n, file, lz4) ==
  LET h == Slice(file, 0, SizeofNsoHeader)
      image_size == SegMemOffset(h, kData) + SegMemSize(h, kData) + SegBssAlign(h, kData)
  IN  LoadNsoDone(
        LoadNsoSegment(
          LoadNsoSegment(
            LoadNsoSegment([ok |-> TRUE, n |-> [n EXCEPT !.header = h,
                                                         !.image = Zeros(image_size)]],
                           file, lz4, kText),
            file, lz4, kRodata),
          file, lz4, kData))

LoadNro(n, file) ==
  LET nro(f) == RdU32(file, nro_offset + f)
      ext(i) == [offset |-> nro(NroHeaderOff.segments + 8 * i),
                 size |-> nro(NroHeaderOff.segments + 8 * i + 4)]
      h1 == SetSegFileSize(SetSeg(n.header, kText, ext(kText).offset, ext(kText).offset,
                                  ext(kText).size, 256), kText, ext(kText).size)
      h2 == SetSegFileSize(SetSeg(h1, kRodata, ext(kRodata).offset, ext(kRodata).offset,
                                  ext(kRodata).size, 1), kRodata, ext(kRodata).size)
      h3 == SetSegFileSize(SetSeg(h2, kData, ext(kData).offset, ext(kData).offset,
                                  ext(kData).size, nro(NroHeaderOff.bss_size)),
                           kData, ext(kData).size)
      h4 == Patch(h3, NsoHeaderOff.gnu_build_id,
                  Slice(file, nro_offset + NroHeaderOff.gnu_build_id, 32))
      h5 == Patch(h4, NsoHeaderOff.dynstr, Slice(file, nro_offset + NroHeaderOff.dynstr, 16))
  IN  IF nro(NroHeaderOff.file_size) # Len(file)
      THEN [ok |-> FALSE, n |-> n]
      ELSE [ok |-> TRUE, n |-> [n EXCEPT !.header = InOrder(<<h1, h2, h3, h4, h5>>),
                                         !.image = file, !.file_type = "kNro"]]

\* for (auto dyn = dynamic; dyn->d_tag; dyn++): the number of entries before
\* the first zero tag.
DynCount(image, dynamic) ==
  LET tag(k) == RdU64(image, dynamic + SizeofElf64_Dyn * k)
      last == (Len(image) - dynamic) \div SizeofElf64_Dyn - 1
      ends == {k \in 0..last : tag(k) = 0}
  IN  IF ends = {} THEN Undefined ELSE CHOOSE k \in ends : \A j \in ends : k <= j

\* The value dyn_info.var holds after the loop: d_un of the last entry
\* with the tag, else what it held before.
DynValue(image, dynamic, tag, before) ==
  LET cnt == DynCount(image, dynamic)
      ks == {k \in 0..(cnt - 1) : RdU64(image, dynamic + SizeofElf64_Dyn * k) = tag}
  IN  IF ks = {} THEN before
      ELSE RdU64(image, dynamic + SizeofElf64_Dyn * (CHOOSE k \in ks : \A j \in ks : j <= k) + 8)

ParseDynamic(n) ==
  LET v(tag, before) == DynValue(n.image, n.dynamic, tag, before)
      d == n.dyn_info
  IN  [n EXCEPT !.dyn_info =
         [symtab |-> v(DT_SYMTAB, d.symtab), rela |-> v(DT_RELA, d.rela),
          relasz |-> v(DT_RELASZ, d.relasz), jmprel |-> v(DT_JMPREL, d.jmprel),
          pltrelsz |-> v(DT_PLTRELSZ, d.pltrelsz), strtab |-> v(DT_STRTAB, d.strtab),
          strsz |-> v(DT_STRSZ, d.strsz), pltgot |-> v(DT_PLTGOT, d.pltgot),
          hash |-> v(DT_HASH, d.hash), gnu_hash |-> v(DT_GNU_HASH, d.gnu_hash),
          init |-> v(DT_INIT, d.init), fini |-> v(DT_FINI, d.fini),
          init_array |-> v(DT_INIT_ARRAY, d.init_array),
          init_arraysz |-> v(DT_INIT_ARRAYSZ, d.init_arraysz),
          fini_array |-> v(DT_FINI_ARRAY, d.fini_array),
          fini_arraysz |-> v(DT_FINI_ARRAYSZ, d.fini_arraysz)]]

\* iter_dynsym: the symbols visited, in order.
DynsymSize(n) == RdU32(n.header, NsoHeaderOff.dynsym + 4)
ReadSym(image, a) ==
  [name |-> RdU32(image, a), info |-> RdU8(image, a + 4), other |-> RdU8(image, a + 5),
   shndx |-> RdU16(image, a + 6), value |-> RdU64(image, a + 8), size |-> RdU64(image, a + 16)]
iter_dynsym(n) ==
  [i \in 1..(DynsymSize(n) \div SizeofElf64_Sym) |->
     ReadSym(n.image, n.dyn_info.symtab + SizeofElf64_Sym * (i - 1))]

ELF64_ST_TYPE(info) == info % 16
ELF64_ST_BIND(info) == info \div 16

\* std::sort + std::unique of a set of numbers.
RECURSIVE SortedSeq(_)
SortedSeq(S) ==
  IF S = {} THEN <<>>
  ELSE LET m == CHOOSE x \in S : \A y \in S : x <= y IN <<m>> \o SortedSeq(S \ {m})

\* seen_shndx without the test for SHN_UNDEF.
SeenShndxWithUndef(syms) ==
  SortedSeq({syms[i].shndx : i \in {i \in 1..Len(syms) : syms[i].shndx < SHN_LORESERVE}})

\* seen_shndx: the st_shndx values of .dynsym that name a section, sorted
\* and without repetition.
SeenShndx(syms) ==
  SortedSeq({syms[i].shndx : i \in {i \in 1..Len(syms) : syms[i].shndx # SHN_UNDEF
                                                           /\ syms[i].shndx < SHN_LORESERVE}})

\* segments[kData].offset after the second iter_dynsym: st_value of the first
\* section symbol of seen_shndx[kData] that leaves it nonzero, else 0.
ModDataOffset(syms, seen_shndx) ==
  LET cands == {i \in 1..Len(syms) :
                  /\ ELF64_ST_TYPE(syms[i].info) = STT_SECTION
                  /\ syms[i].shndx = seen_shndx[kData + 1]
                  /\ U32(syms[i].value) # 0}
  IN  IF cands = {} THEN 0
      ELSE U32(syms[CHOOSE i \in cands : \A j \in cands : i <= j].value)

\* The segment table of a raw MOD written to the header (lines 434-468).
ModHeader(n, mod_base, data_offset, text_size, rodata_offset) ==
  LET d == n.dyn_info
      rodata_size == U32(data_offset - rodata_offset)
      data_size == U32(Len(n.image) - data_offset)
      bss == U32(mod_base + RdS32(n.image, mod_base + ModHeaderOff.bss_end_offset))
               - U32(mod_base + RdS32(n.image, mod_base + ModHeaderOff.bss_start_offset))
      h1 == Patch(n.header, NsoHeaderOff.dynstr,
                  U32LE(U32(d.strtab - rodata_offset)) \o U32LE(U32(d.strsz))
                    \o U32LE(U32(d.symtab - rodata_offset)))
      h2 == SetSegFileSize(SetSeg(h1, kText, 0, 0, text_size, 256), kText, text_size)
      h3 == SetSegFileSize(SetSeg(h2, kRodata, rodata_offset, rodata_offset, rodata_size, 1),
                           kRodata, rodata_size)
      h4 == SetSegFileSize(SetSeg(h3, kData, data_offset, data_offset, data_size,
                                  ALIGN_UP(U32(bss), 4096) + 1), kData, data_size)
  IN  InOrder(<<h1, h2, h3, h4>>)

\* The raw-MOD segments with .rodata placed right after .text, unaligned.
LoadModSegmentsPacked(n, mod_base, syms, seen_shndx, data_offset) ==
  LET text_size == U32(n.plt_info.addr + n.plt_info.size)
  IN  IF Len(seen_shndx) # kNumSegment + 1 THEN [ok |-> FALSE, n |-> n]
      ELSE IF data_offset = 0 THEN [ok |-> FALSE, n |-> n]
      ELSE [ok |-> TRUE,
            n |-> [n EXCEPT !.header = ModHeader(n, mod_base, data_offset, text_size,
                                                 0 + text_size)]]

\* The raw-MOD branch from the symbols on (lines 404-468); n has
\* header.dynsym.size set.
LoadModSegments(n, mod_base, syms, seen_shndx, data_offset) ==
  LET text_size == U32(n.plt_info.addr + n.plt_info.size)
  IN  IF Len(seen_shndx) # kNumSegment + 1 THEN [ok |-> FALSE, n |-> n]
      ELSE IF data_offset = 0 THEN [ok |-> FALSE, n |-> n]
      ELSE [ok |-> TRUE,
            n |-> [n EXCEPT !.header = ModHeader(n, mod_base, data_offset, text_size,
                                                 ALIGN_UP(0 + text_size, 4096))]]

LoadModSeen(n, mod_base, syms, seen_shndx) ==
  LoadModSegments(n, mod_base, syms, seen_shndx,
                  IF Len(seen_shndx) = kNumSegment + 1
                  THEN ModDataOffset(syms, seen_shndx) ELSE 0)

LoadModSymbols(n, mod_base, syms) == LoadModSeen(n, mod_base, syms, SeenShndx(syms))

LoadModDynsym(n, mod_base) == LoadModSymbols(n, mod_base, iter_dynsym(n))

\* The raw-MOD branch after ResolvePlt (lines 386-402).
LoadModResolved(n, mod_base) ==
  IF ~n.plt_found THEN [ok |-> FALSE, n |-> n]
  ELSE IF n.dyn_info.symtab >= n.dyn_info.strtab THEN [ok |-> FALSE, n |-> n]
  ELSE \* header.dynsym.size = strtab - symtab
       LoadModDynsym([n EXCEPT !.header = Patch(@, NsoHeaderOff.dynsym + 4,
                                                U32LE(n.dyn_info.strtab - n.dyn_info.symtab))],
                     mod_base)

\* The raw-MOD branch of Load: the segment table is built from .dynsym.
\* mod_base is the offset of the ModHeader.
LoadModSynthesis(n0, mod_base) ==
  LoadModResolved(ResolvePlt(n0, 0, Len(n0.image)), mod_base)

\* The needles of the build-id scan: Elf64_Nhdr {namesz 4, descsz, type 3}, "GNU\0".
md5_build_id_needle == U32LE(4) \o U32LE(16) \o U32LE(3) \o <<71, 78, 85, 0>>
sha1_build_id_needle == U32LE(4) \o U32LE(20) \o U32LE(3) \o <<71, 78, 85, 0>>

\* The note found in segment i (md5 needle first), or NULL.
FirstFound(a, b) == IF a # NULL THEN a ELSE b
FindNoteIn(n, i) ==
  FirstFound(memmemr(n.image, SegMemOffset(n.header, i), SegMemSize(n.header, i),
                     md5_build_id_needle),
             memmemr(n.image, SegMemOffset(n.header, i), SegMemSize(n.header, i),
                     sha1_build_id_needle))
FindNote(n) ==
  FirstFound(FindNoteIn(n, kRodata), FirstFound(FindNoteIn(n, kText), FindNoteIn(n, kData)))

\* Lines 497-503: the build id of a raw MOD, and eh_info.
LoadNoted(n, mod_base) ==
  LET eh_start == U32(mod_base + RdS32(n.image, mod_base + ModHeaderOff.eh_start_offset))
      eh_end == U32(mod_base + RdS32(n.image, mod_base + ModHeaderOff.eh_end_offset))
  IN  [n EXCEPT !.header =
                   IF n.file_type = "kMod" /\ n.note # NULL
                   THEN Patch(@, NsoHeaderOff.gnu_build_id,
                              Slice(n.image, n.note + 16, RdU32(n.image, n.note + 4)))
                   ELSE @,
                !.eh_info.hdr_addr = eh_start,
                !.eh_info.hdr_size = U32(eh_end - eh_start)]

\* The part of Load after the segment table is known: note and eh_info.
LoadFinish(n0, mod_base) == LoadNoted([n0 EXCEPT !.note = FindNote(n0)], mod_base)

\* Load from the segment table on; r = [ok, n] is what the raw-MOD branch or
\* ResolvePlt left.
LoadSegmentsKnown(r, mod_base) ==
  IF ~r.ok THEN r ELSE [ok |-> TRUE, n |-> LoadFinish(r.n, mod_base)]

\* Load once the dynamic table is parsed (lines 383-468).
LoadParsed(n, mod_base) ==
  LoadSegmentsKnown(
    IF n.file_type # "kMod"
    THEN [ok |-> TRUE,
          n |-> ResolvePlt(n, SegMemOffset(n.header, kText), SegMemSize(n.header, kText))]
    ELSE LoadModSynthesis(n, mod_base),
    mod_base)

\* Load once the container is read (lines 310-382); c = [ok, n], buf the
\* buffer that holds the module: the image, or the file of a raw MOD.
LoadModule(c, file, known, buf, mod_base) ==
  IF ~c.ok THEN c
  ELSE IF ~known /\ Len(file) < SizeofModPointer THEN [ok |-> FALSE, n |-> c.n]
  ELSE IF mod_base + SizeofModHeader > Len(buf) THEN [ok |-> FALSE, n |-> c.n]
  ELSE IF Slice(buf, mod_base, 4) # mod_magic THEN [ok |-> FALSE, n |-> c.n]
  ELSE LoadParsed(
         ParseDynamic([(IF known THEN c.n ELSE [c.n EXCEPT !.image = file, !.file_type = "kMod"])
                         EXCEPT !.dynamic =
                           mod_base + RdS32(buf, mod_base + ModHeaderOff.dynamic_offset)]),
         mod_base)

LoadContainer(c, file, known) ==
  LoadModule(c, file, known, IF known THEN c.n.image ELSE file,
             IF ~c.ok \/ (~known /\ Len(file) < SizeofModPointer) THEN 0
             ELSE RdU32(IF known THEN c.n.image ELSE file, 4))

LoadRead(c, file) == LoadContainer(c, file, c.n.file_type # "kUnknown")

\* bool Load(path): [ok |-> the value returned, n |-> the NsoFile afterwards].
\* file is what File::Read returned, lz4 what the decoder does on each segment.
Load(n, file, lz4) ==
  LoadRead(IF Len(file) >= SizeofNsoHeader /\ Slice(file, 0, 4) = nso_magic
           THEN LoadNso(n, file, lz4)
           ELSE IF Len(file) >= nro_offset + SizeofNroHeader
                     /\ Slice(file, nro_offset, 4) = nro_magic
           THEN LoadNro(n, file)
           ELSE [ok |-> TRUE, n |-> n],
           file)

(***************************************************************************)
(* NsoFile::WriteUncompressedNso                                           *)
(***************************************************************************)
\* flags & 0xf8
ClearCompressionFlags(flags) == (flags % 256) - (flags % 8)

\* The header written: new_header.
UncompressedHeader(n) ==
  LET h0 == Patch(n.header, NsoHeaderOff.flags, U32LE(ClearCompressionFlags(HdrFlags(n.header))))
      fix(h, i) == SetSegFileSize(
                     Patch(h, SegOff(i) + SegmentHeaderOff.file_offset,
                           U32LE(SegMemOffset(h, i) + SizeofNsoHeader)),
                     i, SegMemSize(h, i))
      h1 == fix(h0, kText)
      h2 == fix(h1, kRodata)
      h3 == fix(h2, kData)
      h4 == Patch(h3, SegOff(kText) + SegmentHeaderOff.bss_align, U32LE(256))
      h5 == Patch(h4, SegOff(kRodata) + SegmentHeaderOff.bss_align, U32LE(0))
  IN  InOrder(<<h0, h1, h2, h3, h4, h5>>)

\* The number of image bytes the writer copies after the header.
UncompressedImageSize(n) == SegMemOffset(n.header, kData) + SegMemSize(n.header, kData)


(***************************************************************************)
(* NsoFile::WriteElf                                                       *)
(***************************************************************************)
SHT == [NULL |-> 0, PROGBITS |-> 1, STRTAB |-> 3, RELA |-> 4, HASH |-> 5, DYNAMIC |-> 6,
        NOTE |-> 7, NOBITS |-> 8, DYNSYM |-> 11, INIT_ARRAY |-> 14, FINI_ARRAY |-> 15,
        GNU_HASH |-> 1879048182]
SHF == [WRITE |-> 1, ALLOC |-> 2, EXECINSTR |-> 4, INFO_LINK |-> 64]
PT == [NULL |-> 0, LOAD |-> 1, DYNAMIC |-> 2, GNU_EH_FRAME |-> 1685382480]
PF == [X |-> 1, W |-> 2, R |-> 4]

\* Elf64_Shdr shdr{}; sec is the name the code gave GetOffset for sh_name.
NullShdr ==
  [sec |-> "", sh_name |-> 0, sh_type |-> SHT.NULL, sh_flags |-> 0, sh_addr |-> 0,
   sh_offset |-> 0, sh_size |-> 0, sh_link |-> 0, sh_info |-> 0, sh_addralign |-> 0,
   sh_entsize |-> 0]

\* The name and the flags vaddr_to_shdr gives the section of segment i.
SegmentName(i, pooled) ==
  CASE i = kText -> Lit(".text", 612, pooled)
    [] i = kData -> Lit(".data", 616, pooled)
    [] i = kRodata -> Lit(".rodata", 620, pooled)
SegmentFlags(i) ==
  CASE i = kText -> SHF.ALLOC + SHF.EXECINSTR
    [] i = kData -> SHF.ALLOC + SHF.WRITE
    [] i = kRodata -> SHF.ALLOC

\* shstrtab.AddString(name); shdr.sh_name = shstrtab.GetOffset(name), st
\* being the table after the AddString.
NamedShdr(st, name, shdr) ==
  [st |-> st, shdr |-> [shdr EXCEPT !.sec = name[1], !.sh_name = GetOffset(st, name)]]

\* One round of the loop of vaddr_to_shdr; a = [shdr, st].
VaddrToShdrStep(n, a, vaddr, i, pooled) ==
  IF vaddr >= SegMemOffset(n.header, i)
       /\ vaddr < SegMemOffset(n.header, i) + SegMemSize(n.header, i)
  THEN NamedShdr(AddString(a.st, SegmentName(i, pooled)), SegmentName(i, pooled),
                 [a.shdr EXCEPT !.sh_type = SHT.PROGBITS, !.sh_flags = SegmentFlags(i),
                                !.sh_addr = SegMemOffset(n.header, i),
                                !.sh_size = SegMemSize(n.header, i), !.sh_addralign = 8])
  ELSE IF i = kData
            /\ vaddr >= SegMemOffset(n.header, i) + SegMemSize(n.header, i)
            /\ vaddr <= SegMemOffset(n.header, i) + SegMemSize(n.header, i)
                          + SegBssAlign(n.header, i)
  THEN NamedShdr(AddString(a.st, Lit(".bss", 631, pooled)), Lit(".bss", 631, pooled),
                 [a.shdr EXCEPT !.sh_type = SHT.NOBITS, !.sh_flags = SHF.ALLOC + SHF.WRITE,
                                !.sh_addr = SegMemOffset(n.header, i) + SegMemSize(n.header, i),
                                !.sh_size = SegBssAlign(n.header, i), !.sh_addralign = 8])
  ELSE a

\* vaddr_to_shdr(vaddr): the header made, and the string table afterwards.
vaddr_to_shdr(n, st, vaddr, pooled) ==
  VaddrToShdrStep(n,
    VaddrToShdrStep(n,
      VaddrToShdrStep(n, [shdr |-> NullShdr, st |-> st], vaddr, kText, pooled),
      vaddr, kRodata, pooled),
    vaddr, kData, pooled)

\* known_sections[shndx] = shdr
KnownWith(known_sections, shndx, shdr) ==
  [x \in DOMAIN known_sections \cup {shndx} |->
     IF x = shndx THEN shdr ELSE known_sections[x]]

\* Lines 600-603: what the callback does with r, the result of vaddr_to_shdr.
ProfileSymbolShdr(k, shndx, r) ==
  IF r.shdr.sh_type # SHT.NULL
  THEN [k EXCEPT !.st = r.st, !.known_sections = KnownWith(@, shndx, r.shdr)]
  ELSE [k EXCEPT !.st = r.st]

\* The callback of the first iter_dynsym of WriteElf, on one symbol;
\* k = [num_shdrs, known_sections, st, shndx].
ProfileSymbol(n, k, sym, pooled) ==
  IF sym.shndx >= SHN_LORESERVE THEN k
  ELSE IF sym.shndx # SHT.NULL /\ sym.shndx \notin DOMAIN k.known_sections
  THEN ProfileSymbolShdr([k EXCEPT !.num_shdrs = Max(@, sym.shndx)], sym.shndx,
                         vaddr_to_shdr(n, k.st, sym.value, pooled))
  ELSE [k EXCEPT !.num_shdrs = Max(@, sym.shndx)]

RECURSIVE ProfileSymbols(_, _, _, _, _)
ProfileSymbols(n, k, syms, i, pooled) ==
  IF i > Len(syms) \/ ~Done(k) THEN k
  ELSE ProfileSymbols(n, ProfileSymbol(n, k, syms[i], pooled), syms, i + 1, pooled)

\* next_free(start): the lowest index above start that is not known.
next_free(known_sections, start) ==
  LET free == {i \in (start + 1)..(start + 1 + Cardinality(DOMAIN known_sections)) :
                 i \notin DOMAIN known_sections /\ i < SHN_LORESERVE}
  IN  IF free = {} THEN SHN_UNDEF ELSE CHOOSE i \in free : \A j \in free : i <= j

\* known_sections[shndx] = vaddr_to_shdr(vaddr); shndx = next_free(shndx),
\* r being the result of vaddr_to_shdr.
AddManualShdr(k, r) ==
  [k EXCEPT !.st = r.st, !.known_sections = KnownWith(@, k.shndx, r.shdr),
            !.shndx = next_free(KnownWith(k.known_sections, k.shndx, r.shdr), k.shndx)]

\* One of the four steps that add a canonical section nothing pointed to.
AddManual(n, k, name, vaddr, size, pooled) ==
  IF k.shndx # SHN_UNDEF /\ GetOffset(k.st, name) = 0 /\ size > 0
  THEN AddManualShdr(k, vaddr_to_shdr(n, k.st, vaddr, pooled))
  ELSE k

\* Lines 664-694.
ManualSections(n, k, pooled) ==
  IF Cardinality(DOMAIN k.known_sections) # kNumSegment + 1
  THEN AddManual(n,
         AddManual(n,
           AddManual(n,
             AddManual(n, [k EXCEPT !.shndx = next_free(k.known_sections, SHN_UNDEF)],
                       Lit(".text", 670, pooled), SegMemOffset(n.header, kText),
                       SegMemSize(n.header, kText), pooled),
             Lit(".rodata", 676, pooled), SegMemOffset(n.header, kRodata),
             SegMemSize(n.header, kRodata), pooled),
           Lit(".data", 682, pooled), SegMemOffset(n.header, kData),
           SegMemSize(n.header, kData), pooled),
         Lit(".bss", 688, pooled),
         SegMemOffset(n.header, kData) + SegMemSize(n.header, kData),
         SegBssAlign(n.header, kData), pooled)
  ELSE k

\* Lines 592-695: the string table, num_shdrs and known_sections after the
\* sections were profiled.
ProfileSections(n, pooled) ==
  ManualSections(n,
    ProfileSymbols(n, [num_shdrs |-> 0, known_sections |-> [x \in {} |-> NullShdr],
                       st |-> AddString(StringTableNew(pooled), Lit(".shstrtab", 593, pooled)),
                       shndx |-> SHN_UNDEF],
                   iter_dynsym(n), 1, pooled),
    pooled)

\* ELF64_R_SYM taken for ELF64_R_TYPE.
RelaSym(image, tab, i) == RdU32(image, tab + SizeofElf64_Rela * i + 12)
\* ELF64_R_TYPE(rela.r_info) of the i-th entry of the table at tab.
RelaType(image, tab, i) == RdU32(image, tab + SizeofElf64_Rela * i + 8)
RelaOffset(image, tab, i) == RdU64(image, tab + SizeofElf64_Rela * i)

\* The largest r_offset + sizeof(u64) over the entries of the given type,
\* starting from the value from.
RelaEndMax(image, tab, count, type, from) ==
  LET ends == {from} \cup {RelaOffset(image, tab, i) + 8 :
                            i \in {j \in 0..(count - 1) : RelaType(image, tab, j) = type}}
  IN  CHOOSE e \in ends : \A f \in ends : e >= f

\* jump_slot_addr_end
JumpSlotAddrEnd(n) ==
  IF n.dyn_info.jmprel # 0
  THEN RelaEndMax(n.image, n.dyn_info.jmprel, n.dyn_info.pltrelsz \div SizeofElf64_Rela,
                  R_AARCH64_JUMP_SLOT, 0)
  ELSE 0

\* got_addr as the first pointer to the dynamic table anywhere in the image.
GotAddrFromStart(n, jump_slot_addr_end) ==
  IF jump_slot_addr_end # 0
  THEN LET found == memmem(n.image, 0, Len(n.image), U64LE(n.dynamic))
       IN  IF found # NULL THEN found ELSE 0
  ELSE 0

\* got_addr: the first pointer to the dynamic table after the jump slots.
GotAddr(n, jump_slot_addr_end) ==
  IF jump_slot_addr_end # 0
  THEN IF jump_slot_addr_end > Len(n.image) THEN Undefined
       ELSE LET found == memmem(n.image, jump_slot_addr_end,
                                Len(n.image) - jump_slot_addr_end, U64LE(n.dynamic))
            IN  IF found # NULL THEN found ELSE 0
  ELSE 0

\* The scan for the ret that ends .init: init_ret_offset, or NULL when the
\* scan reaches the end of the image without finding one.
InitRetOffset(n) ==
  LET init == n.dyn_info.init
      hits == {i \in 0..((Len(n.image) - init) \div 4 - 1) :
                 Slice(n.image, init + 4 * i, 4) = RetWord}
  IN  IF hits = {} THEN NULL
      ELSE (1 + CHOOSE i \in hits : \A j \in hits : i <= j) * 4

\* The scan for the branch that ends .fini, over at most 0x20 words.
FiniBranchOffset(n) ==
  LET fini == n.dyn_info.fini
      hits == {i \in 0..31 : RdU8(n.image, fini + 4 * i + 3) = 20}
  IN  IF hits = {} THEN 0
      ELSE (1 + CHOOSE i \in hits : \A j \in hits : i <= j) * 4

\* The size of the frame records from a up to the zero terminator.
RECURSIVE FrameSize(_, _, _)
FrameSize(image, a, size) ==
  LET length == Slice(image, a + size, 4)
  IN  IF length = <<0, 0, 0, 0>> THEN size
      ELSE IF length = <<255, 255, 255, 255>>
      THEN FrameSize(image, a, size + 12 + RdU64(image, a + size + 4))
      ELSE FrameSize(image, a, size + 4 + RdU32(image, a + size))

\* ElfEHInfo::MeasureFrame(hdr, &eh_frame_ptr, &frame_size); eh_frame_ptr is
\* given as an offset in the image.
MeasureFrame(image, hdr_addr) ==
  LET version == RdU8(image, hdr_addr)
      enc == RdU8(image, hdr_addr + 1)
      ptr == CASE enc = 27 -> hdr_addr + 4 + RdS32(image, hdr_addr + 4)
               [] enc = 3 -> RdU32(image, hdr_addr + 4)
               [] OTHER -> NULL
  IN  IF version # 1 \/ ptr = NULL
      THEN [ok |-> FALSE, eh_frame_ptr |-> 0, frame_size |-> 0]
      ELSE [ok |-> TRUE, eh_frame_ptr |-> ptr, frame_size |-> FrameSize(image, ptr, 0)]

\* Lines 731-783: present, and the addresses and sizes found on the way.
\* init_past_end tells that the .init scan left the image; the value of
\* init_ret_offset then is the one of a ret met in the first word after it.
Presence(n) ==
  LET d == n.dyn_info
      jump_slot_addr_end == JumpSlotAddrEnd(n)
      got_plt == jump_slot_addr_end # 0 /\ d.pltgot # 0
      got_addr == GotAddr(n, jump_slot_addr_end)
      scan == IF d.init # 0 THEN InitRetOffset(n) ELSE 0
      init_ret_offset == IF scan = NULL THEN ((Len(n.image) - d.init) \div 4 + 1) * 4
                         ELSE scan
      fini_branch_offset == IF d.fini # 0 THEN FiniBranchOffset(n) ELSE 0
  IN  [plt |-> n.plt_info.addr # 0,
       got_plt |-> got_plt,
       got |-> got_addr # 0 /\ d.rela # 0,
       rela_plt |-> got_plt /\ d.jmprel # 0 /\ d.pltrelsz # 0,
       hash |-> d.hash # 0,
       gnu_hash |-> d.gnu_hash # 0,
       init_array |-> d.init_array # 0 /\ d.init_arraysz # 0,
       fini_array |-> d.fini_array # 0 /\ d.fini_arraysz # 0,
       note |-> n.note # NULL,
       init |-> d.init # 0 /\ init_ret_offset # 0,
       fini |-> d.fini # 0 /\ fini_branch_offset # 0,
       jump_slot_addr_end |-> jump_slot_addr_end, got_addr |-> got_addr,
       init_ret_offset |-> init_ret_offset, init_past_end |-> scan = NULL,
       fini_branch_offset |-> fini_branch_offset]

\* The count without the slot of .plt.
PresentCountNoPlt(present) ==
  Cardinality({f \in {"got", "got_plt", "rela_plt", "hash", "gnu_hash", "init",
                      "fini", "init_array", "fini_array", "note"} : present[f]})

\* The number of ALLOC_SHDR_IF conditions that held.
PresentCount(present) ==
  Cardinality({f \in {"plt", "got", "got_plt", "rela_plt", "hash", "gnu_hash", "init",
                      "fini", "init_array", "fini_array", "note"} : present[f]})

\* The names added at lines 706-709 and 799-826, each with its condition.
SectionNames(present, eh, pooled) ==
  << <<TRUE, Lit(".dynstr", 707, pooled)>>, <<TRUE, Lit(".dynsym", 707, pooled)>>,
     <<TRUE, Lit(".dynamic", 707, pooled)>>, <<TRUE, Lit(".rela.dyn", 707, pooled)>>,
     <<eh, Lit(".eh_frame_hdr", 800, pooled)>>, <<eh, Lit(".eh_frame", 801, pooled)>>,
     <<present.plt, Lit(".plt", 805, pooled)>>, <<present.got, Lit(".got", 807, pooled)>>,
     <<present.got_plt, Lit(".got.plt", 809, pooled)>>,
     <<present.rela_plt, Lit(".rela.plt", 811, pooled)>>,
     <<present.hash, Lit(".hash", 813, pooled)>>,
     <<present.gnu_hash, Lit(".gnu.hash", 815, pooled)>>,
     <<present.init, Lit(".init", 817, pooled)>>, <<present.fini, Lit(".fini", 819, pooled)>>,
     <<present.init_array, Lit(".init_array", 821, pooled)>>,
     <<present.fini_array, Lit(".fini_array", 823, pooled)>>,
     <<present.note, Lit(".note", 825, pooled)>> >>

\* The table after the names from the i-th on were added.
RECURSIVE AddStrings(_, _, _)
AddStrings(st, names, i) ==
  IF i > Len(names) \/ ~Done(st) THEN st
  ELSE AddStrings(IF names[i][1] THEN AddString(st, names[i][2]) ELSE st, names, i + 1)

\* The places of the parts of the file, st being the finished string table.
ElfLayoutOf(n, k, present, eh, st) ==
  LET num0 == k.num_shdrs + 1
      shdrs_needed == Cardinality(DOMAIN k.known_sections) - num0 + 1 + 1 + 4
                        + PresentCount(present) + (IF eh THEN 2 ELSE 0)
      num_shdrs == IF shdrs_needed > 0 THEN num0 + shdrs_needed ELSE num0
      num_phdrs == kNumSegment + 2
      e_shoff == SizeofElf64_Ehdr + SizeofElf64_Phdr * num_phdrs
      h == n.header
  IN  [st |-> st, buffer |-> GetBuffer(st), size |-> StringTableSize(st),
       shdrs_needed |-> shdrs_needed, num_shdrs |-> num_shdrs, num_phdrs |-> num_phdrs,
       e_shoff |-> e_shoff, offset |-> e_shoff + SizeofElf64_Shdr * num_shdrs,
       elf_size |-> SizeofElf64_Ehdr + SizeofElf64_Phdr * num_phdrs
                      + SizeofElf64_Shdr * num_shdrs + StringTableSize(st)
                      + SegMemSize(h, kText) + SegMemSize(h, kRodata) + SegMemSize(h, kData)]

\* Lines 696-710 and 786-841: the section count, the finished string table
\* and the places of the parts of the file.
ElfLayout(n, k, present, eh, pooled) ==
  ElfLayoutOf(n, k, present, eh, AddStrings(k.st, SectionNames(present, eh, pooled), 1))

\* The PT_LOAD program header of segment i, placed at data_offset_cur.
LoadPhdr(h, i, data_offset_cur) ==
  [p_type |-> PT.LOAD,
   p_flags |-> CASE i = kText -> PF.R + PF.X [] i = kRodata -> PF.R [] i = kData -> PF.R + PF.W,
   p_offset |-> data_offset_cur, p_vaddr |-> SegMemOffset(h, i), p_paddr |-> SegMemOffset(h, i),
   p_filesz |-> SegMemSize(h, i),
   p_memsz |-> IF i = kData THEN SegMemSize(h, i) + SegBssAlign(h, i) ELSE SegMemSize(h, i),
   p_align |-> IF i = kData THEN 1 ELSE Max(1, SegBssAlign(h, i))]

\* vaddr_to_foffset(vaddr), over the three PT_LOADs written so far.
vaddr_to_foffset(phdrs, vaddr) ==
  LET hit == {i \in 1..kNumSegment :
                vaddr >= phdrs[i].p_vaddr /\ vaddr < phdrs[i].p_vaddr + phdrs[i].p_filesz}
  IN  IF hit = {} THEN 0
      ELSE LET i == CHOOSE x \in hit : \A y \in hit : x <= y
           IN  phdrs[i].p_offset + (vaddr - phdrs[i].p_vaddr)

\* Lines 876-905: the three PT_LOADs, the first at data_offset_cur.
LoadPhdrs(h, data_offset_cur) ==
  << LoadPhdr(h, kText, data_offset_cur),
     LoadPhdr(h, kRodata, data_offset_cur + SegMemSize(h, kText)),
     LoadPhdr(h, kData, data_offset_cur + SegMemSize(h, kText) + SegMemSize(h, kRodata)) >>

\* Lines 914-936: PT_DYNAMIC and PT_GNU_EH_FRAME after the three PT_LOADs.
WithDynamicPhdrs(n, eh_info, loads) ==
  loads \o
  << [p_type |-> PT.DYNAMIC, p_flags |-> PF.R + PF.W,
      p_offset |-> vaddr_to_foffset(loads, n.dynamic),
      p_vaddr |-> n.dynamic, p_paddr |-> n.dynamic,
      p_filesz |-> SizeofElf64_Dyn * (DynCount(n.image, n.dynamic) + 1),
      p_memsz |-> SizeofElf64_Dyn * (DynCount(n.image, n.dynamic) + 1), p_align |-> 8],
     [p_type |-> PT.GNU_EH_FRAME, p_flags |-> PF.R,
      p_offset |-> vaddr_to_foffset(loads, eh_info.hdr_addr),
      p_vaddr |-> eh_info.hdr_addr, p_paddr |-> eh_info.hdr_addr,
      p_filesz |-> eh_info.hdr_size, p_memsz |-> eh_info.hdr_size, p_align |-> 4] >>

\* Lines 876-936: the five program headers.
ProgramHeaders(n, eh_info, layout) ==
  WithDynamicPhdrs(n, eh_info, LoadPhdrs(n.header, layout.offset + layout.size))

\* Lines 907-912: sh_offset of a known section after the three PT_LOADs.
FixupOffset(shdr, phdrs) ==
  LET hit == {i \in 1..kNumSegment : shdr.sh_addr = phdrs[i].p_vaddr}
  IN  IF hit = {} THEN shdr
      ELSE [shdr EXCEPT !.sh_offset = phdrs[CHOOSE x \in hit : \A y \in hit : x >= y].p_offset]

\* insert_shdr taking the first free slot from start on without looking at
\* what the slot holds.
insert_shdr_any(s, shdr, ordered, order) ==
  LET hit == {x \in DOMAIN s.known_sections :
                shdr.sh_addr >= s.known_sections[x].sh_addr
                  /\ shdr.sh_addr < s.known_sections[x].sh_addr + s.known_sections[x].sh_size}
      start == IF ordered /\ hit # {}
               THEN 1 + (IF order = "up" THEN CHOOSE x \in hit : \A y \in hit : x >= y
                         ELSE CHOOSE x \in hit : \A y \in hit : x <= y)
               ELSE 1
  IN  IF s.num_shdrs <= start
      THEN [s EXCEPT !.ret = SHN_UNDEF, !.failed = @ \cup {shdr.sec}]
      ELSE [s EXCEPT !.shdrs[start] = shdr, !.ret = start]

\* insert_shdr(shdr, ordered) on s = [shdrs, known_sections, num_shdrs, ...]:
\* the table afterwards and the index returned (field ret).  order tells
\* which way the known-sections map is iterated: the last containing
\* section met decides where the scan starts.
insert_shdr(s, shdr, ordered, order) ==
  LET hit == {x \in DOMAIN s.known_sections :
                shdr.sh_addr >= s.known_sections[x].sh_addr
                  /\ shdr.sh_addr < s.known_sections[x].sh_addr + s.known_sections[x].sh_size}
      start == IF ordered /\ hit # {}
               THEN 1 + (IF order = "up" THEN CHOOSE x \in hit : \A y \in hit : x >= y
                         ELSE CHOOSE x \in hit : \A y \in hit : x <= y)
               ELSE 1
      free(from) == {i \in from..(s.num_shdrs - 1) : s.shdrs[i].sh_type = SHT.NULL}
      slots == IF free(start) # {} THEN free(start)
               ELSE IF ordered /\ start # 1 THEN free(1) ELSE {}
  IN  IF s.num_shdrs <= 1 \/ slots = {}
      THEN [s EXCEPT !.ret = SHN_UNDEF, !.failed = @ \cup {shdr.sec}]
      ELSE LET i == CHOOSE x \in slots : \A y \in slots : x <= y
           IN  [s EXCEPT !.shdrs[i] = shdr, !.ret = i]

\* A header made at a line shdr = {}; ...; with the name looked up there.
MakeShdr(st, name, type, flags, addr, offset, size, link, info, addralign, entsize) ==
  [sec |-> name[1], sh_name |-> GetOffset(st, name), sh_type |-> type, sh_flags |-> flags,
   sh_addr |-> addr, sh_offset |-> offset, sh_size |-> size, sh_link |-> link,
   sh_info |-> info, sh_addralign |-> addralign, sh_entsize |-> entsize]

\* Lines 944-949: the table with the known sections at their indices.  A
\* known index is below num_shdrs; a write past the table has no value here.
KnownShdrs(k, phdrs, num_shdrs) ==
  IF \E x \in DOMAIN k.known_sections : x >= num_shdrs THEN Undefined
  ELSE [i \in 0..(num_shdrs - 1) |->
          IF i \in DOMAIN k.known_sections THEN FixupOffset(k.known_sections[i], phdrs)
          ELSE NullShdr]

\* last_local_dynsym_index
LastLocalDynsymIndex(syms) ==
  LET loc == {i \in 1..Len(syms) : ELF64_ST_BIND(syms[i].info) = STB_LOCAL}
  IN  IF loc = {} THEN 0 ELSE (CHOOSE i \in loc : \A j \in loc : i >= j) - 1

\* One insertion of lines 985-1280: whether it happens (c), the header, and
\* the ordered argument of insert_shdr.
Insertion(c, shdr, ordered) ==
  [c |-> c, shdr |-> IF c THEN shdr ELSE NullShdr, ordered |-> ordered]

\* The i-th insertion of lines 985-1280; w = [n, k, present, eh, eh_info,
\* layout, pooled, order], s the table and the indices kept so far.
SectionAt(w, phdrs, s, i) ==
  LET n == w.n
      d == w.n.dyn_info
      h == w.n.header
      st == w.layout.st
      present == w.present
      eh_info == w.eh_info
      A == SHF.ALLOC
      AX == SHF.ALLOC + SHF.EXECINSTR
      AW == SHF.ALLOC + SHF.WRITE
      fo(vaddr) == vaddr_to_foffset(phdrs, vaddr)
      name(str, line) == Lit(str, line, w.pooled)
      dyn_phdr == phdrs[kData + 2]
  IN  CASE i = 1 -> Insertion(present.init,
             MakeShdr(st, name(".init", 987), SHT.PROGBITS, AX, d.init, fo(d.init),
                      present.init_ret_offset, 0, 0, 4, 0), TRUE)
        [] i = 2 -> Insertion(present.fini,
             MakeShdr(st, name(".fini", 1001), SHT.PROGBITS, AX, d.fini, fo(d.fini),
                      present.fini_branch_offset, 0, 0, 4, 0), TRUE)
        [] i = 3 -> Insertion(TRUE,
             MakeShdr(st, name(".dynstr", 1014), SHT.STRTAB, A,
                      SegMemOffset(h, kRodata) + RdU32(h, NsoHeaderOff.dynstr),
                      phdrs[kRodata + 1].p_offset + RdU32(h, NsoHeaderOff.dynstr),
                      RdU32(h, NsoHeaderOff.dynstr + 4), 0, 0, 1, 0), FALSE)
        [] i = 4 -> Insertion(TRUE,
             MakeShdr(st, name(".dynsym", 1033), SHT.DYNSYM, A,
                      SegMemOffset(h, kRodata) + RdU32(h, NsoHeaderOff.dynsym),
                      phdrs[kRodata + 1].p_offset + RdU32(h, NsoHeaderOff.dynsym),
                      DynsymSize(n), s.dynstr_shndx,
                      LastLocalDynsymIndex(iter_dynsym(n)) + 1, 8, SizeofElf64_Sym), FALSE)
        [] i = 5 -> Insertion(TRUE,
             MakeShdr(st, name(".dynamic", 1050), SHT.DYNAMIC, AW, dyn_phdr.p_vaddr,
                      dyn_phdr.p_offset, dyn_phdr.p_filesz, s.dynstr_shndx, 0,
                      dyn_phdr.p_align, SizeofElf64_Dyn), FALSE)
        [] i = 6 -> Insertion(TRUE,
             MakeShdr(st, name(".rela.dyn", 1064), SHT.RELA, A, d.rela, fo(d.rela),
                      d.relasz, s.dynsym_shndx, 0, 8, SizeofElf64_Rela), FALSE)
        [] i = 7 -> Insertion(present.plt,
             MakeShdr(st, name(".plt", 1080), SHT.PROGBITS, AX, n.plt_info.addr,
                      fo(n.plt_info.addr), n.plt_info.size, 0, 0, 16, 16), TRUE)
        [] i = 8 -> Insertion(present.got,
             MakeShdr(st, name(".got", 1103), SHT.PROGBITS, AW, present.got_addr,
                      fo(present.got_addr),
                      RelaEndMax(n.image, d.rela, d.relasz \div SizeofElf64_Rela,
                                 R_AARCH64_GLOB_DAT, present.got_addr) - present.got_addr,
                      0, 0, 8, 8), TRUE)
        [] i = 9 -> Insertion(present.got_plt,
             MakeShdr(st, name(".got.plt", 1118), SHT.PROGBITS, AW, d.pltgot, fo(d.pltgot),
                      present.jump_slot_addr_end - d.pltgot, 0, 0, 8, 8), TRUE)
        [] i = 10 -> Insertion(present.rela_plt,
             MakeShdr(st, name(".rela.plt", 1136), SHT.RELA,
                      IF s.plt_shndx # SHN_UNDEF THEN A + SHF.INFO_LINK ELSE A,
                      d.jmprel, fo(d.jmprel), d.pltrelsz, s.dynsym_shndx, s.plt_shndx, 8,
                      SizeofElf64_Rela), FALSE)
        [] i = 11 -> Insertion(present.init_array,
             MakeShdr(st, name(".init_array", 1156), SHT.INIT_ARRAY, AW, d.init_array,
                      fo(d.init_array), d.init_arraysz, 0, 0, 8, 0), TRUE)
        [] i = 12 -> Insertion(present.fini_array,
             MakeShdr(st, name(".fini_array", 1170), SHT.FINI_ARRAY, AW, d.fini_array,
                      fo(d.fini_array), d.fini_arraysz, 0, 0, 8, 0), TRUE)
        [] i = 13 -> Insertion(present.hash,
             MakeShdr(st, name(".hash", 1188), SHT.HASH, A, d.hash, fo(d.hash),
                      8 + RdU32(n.image, d.hash) * 4 + RdU32(n.image, d.hash + 4) * 4,
                      s.dynsym_shndx, 0, 8, 4), FALSE)
        [] i = 14 -> Insertion(present.gnu_hash,
             MakeShdr(st, name(".gnu.hash", 1217), SHT.GNU_HASH, A, d.gnu_hash,
                      fo(d.gnu_hash),
                      16 + RdU32(n.image, d.gnu_hash + 8) * 8 + RdU32(n.image, d.gnu_hash) * 4
                         + (DynsymSize(n) \div SizeofElf64_Sym
                              - RdU32(n.image, d.gnu_hash + 4)) * 4,
                      s.dynsym_shndx, 0, 8, 4), FALSE)
        [] i = 15 -> Insertion(present.note,
             MakeShdr(st, name(".note", 1233), SHT.NOTE, A, n.note, fo(n.note),
                      SizeofElf64_Nhdr + RdU32(n.image, n.note + 4) + RdU32(n.image, n.note),
                      0, 0, 4, 0), FALSE)
        [] i = 16 -> Insertion(w.eh,
             MakeShdr(st, name(".eh_frame_hdr", 1248), SHT.PROGBITS, A, eh_info.hdr_addr,
                      fo(eh_info.hdr_addr), eh_info.hdr_size, 0, 0, 4, 0), TRUE)
        [] i = 17 -> Insertion(w.eh,
             MakeShdr(st, name(".eh_frame", 1259), SHT.PROGBITS, A, eh_info.frame_addr,
                      fo(eh_info.frame_addr), eh_info.frame_size, 0, 0, 4, 0), TRUE)
        [] i = 18 -> Insertion(TRUE,
             MakeShdr(st, name(".shstrtab", 1272), SHT.STRTAB, 0, 0, w.layout.offset,
                      Len(w.layout.buffer), 0, 0, 1, 0), FALSE)

\* u32 dynstr_shndx = insert_shdr(shdr), and the same for dynsym_shndx and
\* plt_shndx: s after the index returned for section sec was kept.
KeepIndex(s, sec) ==
  CASE sec = ".dynstr" -> [s EXCEPT !.dynstr_shndx = s.ret]
    [] sec = ".dynsym" -> [s EXCEPT !.dynsym_shndx = s.ret]
    [] sec = ".plt" -> [s EXCEPT !.plt_shndx = s.ret]
    [] OTHER -> s

\* One insertion: insert_shdr where its condition holds, the index kept.
InsertSection(s, sec, order) ==
  IF sec.c
  THEN KeepIndex(insert_shdr(s, sec.shdr, sec.ordered, order), sec.shdr.sec)
  ELSE s

\* The table after the insertions from the i-th on.
RECURSIVE InsertSections(_, _, _, _)
InsertSections(w, phdrs, s, i) ==
  IF i > 18 \/ ~Done(s) THEN s
  ELSE InsertSections(w, phdrs, InsertSection(s, SectionAt(w, phdrs, s, i), w.order), i + 1)

\* Lines 944-1280: the section header table, and e_shstrndx.
SectionHeaders(w, phdrs) ==
  InsertSections(w, phdrs,
    [shdrs |-> KnownShdrs(w.k, phdrs, w.layout.num_shdrs),
     known_sections |-> w.k.known_sections, num_shdrs |-> w.layout.num_shdrs,
     ret |-> SHN_UNDEF, failed |-> {}, dynstr_shndx |-> SHN_UNDEF,
     dynsym_shndx |-> SHN_UNDEF, plt_shndx |-> SHN_UNDEF], 1)

EhdrBytes(e) ==
  <<127, 69, 76, 70, 2, 1, 1, 0>> \o Zeros(8) \o U16LE(e.e_type) \o U16LE(e.e_machine)
    \o U32LE(e.e_version) \o U64LE(e.e_entry) \o U64LE(e.e_phoff) \o U64LE(e.e_shoff)
    \o U32LE(e.e_flags) \o U16LE(e.e_ehsize) \o U16LE(e.e_phentsize) \o U16LE(e.e_phnum)
    \o U16LE(e.e_shentsize) \o U16LE(e.e_shnum) \o U16LE(e.e_shstrndx)
PhdrBytes(ph) ==
  U32LE(ph.p_type) \o U32LE(ph.p_flags) \o U64LE(ph.p_offset) \o U64LE(ph.p_vaddr)
    \o U64LE(ph.p_paddr) \o U64LE(ph.p_filesz) \o U64LE(ph.p_memsz) \o U64LE(ph.p_align)
ShdrBytes(sh) ==
  U32LE(sh.sh_name) \o U32LE(sh.sh_type) \o U64LE(sh.sh_flags) \o U64LE(sh.sh_addr)
    \o U64LE(sh.sh_offset) \o U64LE(sh.sh_size) \o U32LE(sh.sh_link) \o U32LE(sh.sh_info)
    \o U64LE(sh.sh_addralign) \o U64LE(sh.sh_entsize)

\* memcpy(dst, &image[a], len): the bytes read.  A read past the end of the
\* image is undefined; where the process survives it, fill stands for what
\* lay behind the buffer.
ImageRead(image, a, len, fill) ==
  Bytes([i \in 1..len |-> IF a + i <= Len(image) THEN image[a + i] ELSE fill])

\* Some segment of the table reaches past the end of the image.
SegmentPastImage(n) ==
  \E i \in {kText, kRodata, kData} :
    SegMemOffset(n.header, i) + SegMemSize(n.header, i) > Len(n.image)

\* The outcomes of undefined behaviour: the process dies, or goes on with
\* bytes that were never part of the image.
UB == {[crash |-> TRUE, fill |-> 0], [crash |-> FALSE, fill |-> 0],
       [crash |-> FALSE, fill |-> 204]}
\* What a run can do: any of the outcomes where it reads past the image
\* (past), the one defined course where it does not.
Outcomes(past) == IF past THEN UB ELSE {[crash |-> FALSE, fill |-> 0]}

NoElf ==
  [ehdr |-> <<>>, phdrs |-> <<>>, shdrs |-> <<>>, bytes |-> <<>>, failed |-> {},
   shstrtab |-> [offset |-> 0, size |-> 0, buffer |-> <<>>]]

\* Lines 1281-1283 and the file: the header, and the bytes written.
WriteElfFile(w, phdrs, sh, ub) ==
  LET h == w.n.header
      layout == w.layout
      ehdr == [e_type |-> 3, e_machine |-> 183, e_version |-> 1, e_ehsize |-> SizeofElf64_Ehdr,
               e_flags |-> 0, e_entry |-> SegMemOffset(h, kText), e_phoff |-> SizeofElf64_Ehdr,
               e_phentsize |-> SizeofElf64_Phdr, e_phnum |-> layout.num_phdrs,
               e_shoff |-> layout.e_shoff, e_shentsize |-> SizeofElf64_Shdr,
               e_shnum |-> layout.num_shdrs, e_shstrndx |-> sh.ret]
      seg(i) == ImageRead(w.n.image, SegMemOffset(h, i), SegMemSize(h, i), ub.fill)
  IN  [status |-> "written", n |-> [w.n EXCEPT !.eh_info = w.eh_info],
       elf |-> [ehdr |-> ehdr, phdrs |-> phdrs, shdrs |-> sh.shdrs,
                bytes |-> EhdrBytes(ehdr)
                            \o Concat([i \in 1..layout.num_phdrs |-> PhdrBytes(phdrs[i])])
                            \o Concat([i \in 1..layout.num_shdrs |-> ShdrBytes(sh.shdrs[i - 1])])
                            \o layout.buffer \o Zeros(layout.size - Len(layout.buffer))
                            \o seg(kText) \o seg(kRodata) \o seg(kData),
                failed |-> sh.failed,
                shstrtab |-> [offset |-> layout.offset, size |-> layout.size,
                              buffer |-> layout.buffer]],
       shstrtab |-> layout.st]

\* The file of WriteElfFile; its size is the elf_size computed at line 839.
WriteElfSized(w, r) ==
  IF Len(r.elf.bytes) # w.layout.elf_size THEN Undefined ELSE r

\* Lines 876-1283, the sizes and places being known.
WriteElfHeaders(w, phdrs, ub) ==
  WriteElfSized(w, WriteElfFile(w, phdrs, SectionHeaders(w, phdrs), ub))

\* Lines 786-841: eh_info of the measured frame, and the layout.
WriteElfMeasured(n, k, present, m, pooled, order) ==
  [n |-> n, k |-> k, present |-> present, eh |-> m.ok,
   eh_info |-> IF m.ok
               THEN [hdr_addr |-> n.eh_info.hdr_addr,
                     hdr_size |-> ALIGN_UP(n.eh_info.hdr_size, 16),
                     frame_addr |-> n.eh_info.hdr_addr + (m.eh_frame_ptr - n.eh_info.hdr_addr),
                     frame_size |-> ALIGN_UP(m.frame_size, 16)]
               ELSE n.eh_info,
   layout |-> ElfLayout(n, k, present, m.ok, pooled), pooled |-> pooled, order |-> order]

WriteElfLaidOut(w, ub) ==
  WriteElfHeaders(w, ProgramHeaders(w.n, w.eh_info, w.layout), ub)

\* WriteElf with a first write to the path before the buffer is complete.
WriteElfEarly(n, pooled, order, ub) ==
  IF ub.crash /\ (SegmentPastImage(n) \/ Presence(n).init_past_end)
  THEN [status |-> "crashed", n |-> n, elf |-> [NoElf EXCEPT !.bytes = <<127, 69, 76, 70>>],
        shstrtab |-> StringTableNew(pooled)]
  ELSE WriteElfLaidOut(WriteElfMeasured(n, ProfileSections(n, pooled), Presence(n),
                                        MeasureFrame(n.image, n.eh_info.hdr_addr),
                                        pooled, order), ub)

\* bool WriteElf(path): status "written" with the file in elf, or "crashed";
\* n is the NsoFile afterwards.  pooled: the build shares equal string
\* literals; order: the iteration order of known_sections; ub: what
\* undefined behaviour does in this run, where the input leads to it.
WriteElf(n, pooled, order, ub) ==
  IF ub.crash /\ (SegmentPastImage(n) \/ Presence(n).init_past_end)
  THEN [status |-> "crashed", n |-> n, elf |-> NoElf, shstrtab |-> StringTableNew(pooled)]
  ELSE WriteElfLaidOut(WriteElfMeasured(n, ProfileSections(n, pooled), Presence(n),
                                        MeasureFrame(n.image, n.eh_info.hdr_addr),
                                        pooled, order), ub)

\* bool WriteUncompressedNso(path): the bytes handed to File::Write, or
\* "crashed" where the copy of the image reads past its end and the process
\* does not survive it.
WriteUncompressedNso(n, ub) ==
  IF ub.crash /\ UncompressedImageSize(n) > Len(n.image)
  THEN [status |-> "crashed", data |-> <<>>]
  ELSE [status |-> "written",
        data |-> UncompressedHeader(n)
                   \o ImageRead(n.image, 0, UncompressedImageSize(n), ub.fill)]

(***************************************************************************)
(* NsoToElf and main.  A const char* that is not an offset is a string, or *)
(* NULL.  What one call of NsoToElf does is [ended, ret, elf, unc]: ended  *)
(* is "returned" or "killed" (the process did not survive undefined        *)
(* behaviour), ret the value returned, elf and unc the bytes written to    *)
(* the two paths (empty when nothing was written).                         *)
(***************************************************************************)
\* A const char* to an argument string s is <<s>>; the null pointer is <<>>.
nullptr == <<>>

NsoToElfResult(ended, ret, elf, unc) ==
  [ended |-> ended, ret |-> ret, elf |-> elf, unc |-> unc]

\* After nso.WriteUncompressedNso(uncompressed_path), u being its outcome.
NsoToElfDone(success, elf, u) ==
  IF u.status = "crashed" THEN NsoToElfResult("killed", FALSE, elf, <<>>)
  ELSE NsoToElfResult("returned", success, elf, u.data)

\* if (uncompressed_path) success &= nso.WriteUncompressedNso(...)
NsoToElfUncompressed(n, success, elf, uncompressed_path, ub) ==
  IF uncompressed_path = nullptr THEN NsoToElfResult("returned", success, elf, <<>>)
  ELSE NsoToElfDone(success, elf, WriteUncompressedNso(n, ub))

\* After nso.WriteElf(elf_path), r being its outcome, File::Write having
\* written the file.
NsoToElfElf(r, uncompressed_path, ub) ==
  IF r.status = "crashed" THEN NsoToElfResult("killed", FALSE, <<>>, <<>>)
  ELSE NsoToElfUncompressed(r.n, TRUE, r.elf.bytes, uncompressed_path, ub)

\* NsoToElf after nso.Load(path), l being its outcome.
NsoToElfLoaded(l, elf_path, uncompressed_path, pooled, order, ub) ==
  IF ~l.ok THEN NsoToElfResult("returned", FALSE, <<>>, <<>>)
  ELSE IF elf_path = nullptr
       THEN NsoToElfUncompressed(l.n, TRUE, <<>>, uncompressed_path, ub)
       ELSE NsoToElfElf(WriteElf(l.n, pooled, order, ub), uncompressed_path, ub)

\* The same where File::Write could not write the ELF (write_ok false):
\* WriteElf returns what File::Write returned.
WithFileWrite(res, write_ok) ==
  IF res.ended = "returned" /\ res.elf # <<>> /\ ~write_ok
  THEN [res EXCEPT !.ret = FALSE, !.elf = <<>>]
  ELSE res

\* Some read of the conversion of a loaded file leaves the image.
ReadsPastImage(l) ==
  /\ l.ok
  /\ \/ SegmentPastImage(l.n)
     \/ Presence(l.n).init_past_end
     \/ UncompressedImageSize(l.n) > Len(l.n.image)

\* The arguments after argv[0] are a sequence of strings.  argv[i] for
\* 1 <= i <= argc; argv[argc] is the null pointer.
Argv(args, i) == IF i <= Len(args) THEN <<args[i]>> ELSE nullptr

\* One round of the argument loop of main, on c = [i, input_path, elf_path,
\* uncompressed_path, unknown].
ParseArg(args, c) ==
  IF args[c.i] = "--export-elf"
  THEN [c EXCEPT !.elf_path = Argv(args, c.i + 1), !.i = c.i + 2]
  ELSE IF args[c.i] = "--export-uncompressed"
  THEN [c EXCEPT !.uncompressed_path = Argv(args, c.i + 1), !.i = c.i + 2]
  ELSE IF c.input_path = nullptr
  THEN [c EXCEPT !.input_path = Argv(args, c.i), !.i = c.i + 1]
  ELSE [c EXCEPT !.unknown = TRUE]

(***************************************************************************)
(* The program: one conversion (NsoToElf) of the input file.               *)
(***************************************************************************)
VARIABLES
  pc,       \* where the conversion stands
  file,     \* the bytes of the input file
  lz4,      \* what the LZ4 decoder does on each segment of the input
  nso,      \* the NsoFile
  pooled,   \* the build stores equal string literals once
  shstrtab, \* the StringTable of WriteElf: [entries, watermark]
  elf,      \* the file written to the path of --export-elf
  unc,      \* the file written to the path of --export-uncompressed
  prev,     \* the file the run before this one wrote there
  run,      \* the number of runs before this one
  cli       \* main: its position, arguments and locals, and what it did

vars == <<pc, file, lz4, nso, pooled, shstrtab, elf, unc, prev, run, cli>>

\* plt_info of a fresh NsoFile is not initialized: zero, or anything else.
Garbage == {0, 85}

\* The runs on the program's own output that follow the first.
MaxRuns == 1

\* NSO files: the default, and one departure from it each.
NsoInputs ==
  {[file |-> NsoFileBytes(p, C0), lz4 |-> NoLz4] :
     p \in {P0,
            [P0 EXCEPT !.plt = "none"], [P0 EXCEPT !.plt = "twice"],
            [P0 EXCEPT !.plt = "rodata"], [P0 EXCEPT !.pltrelsz = 0],
            [P0 EXCEPT !.pltgot = FALSE], [P0 EXCEPT !.slot_type = 1025],
            [P0 EXCEPT !.init_arraysz = 0], [P0 EXCEPT !.fini_arraysz = 0],
            [P0 EXCEPT !.hash = FALSE, !.gnu_hash = FALSE, !.init_array = FALSE,
                       !.fini_array = FALSE],
            [P0 EXCEPT !.syms = "five"], [P0 EXCEPT !.syms = "dup"],
            [P0 EXCEPT !.init_ret = FALSE], [P0 EXCEPT !.eh = FALSE],
            [P0 EXCEPT !.slot_at = "dynamic"], [P0 EXCEPT !.got_ptr = FALSE],
            [P0 EXCEPT !.rela = FALSE]}}
    \cup
  \* the MOD header names a dynamic table in .bss; no symbols
  {[file |-> NsoFileBytes([P0 EXCEPT !.dyn_at = "bss"], [C0 EXCEPT !.dynsym_size = 0]),
    lz4 |-> NoLz4]}
    \cup
  {[file |-> NsoFileBytes(P0, c), lz4 |-> Lz4Oracle(P0, c)] :
     c \in {[C0 EXCEPT !.flags = 7, !.kinds = <<"exact", "exact", "exact">>],
            [C0 EXCEPT !.flags = 1, !.kinds = <<"short", "none", "none">>],
            [C0 EXCEPT !.flags = 2, !.kinds = <<"none", "error", "none">>],
            [C0 EXCEPT !.flags = 264],
            [C0 EXCEPT !.flags = 56],
            [C0 EXCEPT !.text_mem_size = 240]}}

\* A file of 192 bytes, shorter than an NsoHeader: field_0 of the ModPointer
\* holds the given bytes, the NroHeader at 16 names three segments, and the
\* MOD header at 128 names an empty dynamic table at 160.
ShortNroFileBytes(field_0) ==
  Assemble(192,
    << <<0, field_0 \o U32LE(128)>>,
       <<nro_offset, nro_magic \o U32LE(0) \o U32LE(192) \o U32LE(0)
                       \o U32LE(0) \o U32LE(128) \o U32LE(128) \o U32LE(32)
                       \o U32LE(160) \o U32LE(32) \o U32LE(0)>>,
       <<128, mod_magic \o S32LE(32) \o S32LE(64) \o S32LE(64) \o S32LE(0) \o S32LE(0)
                \o S32LE(0)>> >>)

NroInputs ==
  {[file |-> ShortNroFileBytes(nso_magic), lz4 |-> NoLz4],
   [file |-> ShortNroFileBytes(<<0, 0, 0, 0>>), lz4 |-> NoLz4],
   [file |-> NroFileBytes(P0, 0, 0, 16), lz4 |-> NoLz4],
   [file |-> NroFileBytes(P0, 16, 0, 16), lz4 |-> NoLz4],
   [file |-> NroFileBytes(P0, 0, 1, 16), lz4 |-> NoLz4],
   [file |-> NroFileBytes([P0 EXCEPT !.plt = "none"], 0, 0, 0), lz4 |-> NoLz4]}

\* Raw MOD images: .rodata on the page after .text.
ModInputs ==
  {[file |-> ModuleImage(p), lz4 |-> NoLz4] :
     p \in {[P0 EXCEPT !.rb = 4096, !.syms = k] :
              k \in {"four", "nosect", "sectzero", "three", "five"}}
             \cup {[P0 EXCEPT !.rb = 4096, !.plt = "none"],
                   [P0 EXCEPT !.rb = 4096, !.symtab_after = TRUE],
                   [P0 EXCEPT !.rb = 4096, !.mod_magic = FALSE]}}

Inputs == NsoInputs \cup NroInputs \cup ModInputs

\* main before it starts: args the arguments after argv[0], c the locals of
\* the argument loop, stderr what was printed there, ended and status how
\* the process ended, is_directory what fs::is_directory(path) returned,
\* children the entries of the directory (or the one file), next the place
\* of the directory iterator, attempted the calls of NsoToElf made, each
\* <<child, ended, ret>>.
MainNew(args) ==
  [pc |-> "main", args |-> args,
   c |-> [i |-> 1, input_path |-> nullptr, elf_path |-> nullptr,
          uncompressed_path |-> nullptr,
          unknown |-> FALSE],
   stderr |-> <<>>, ended |-> "running", status |-> NULL,
   is_directory |-> FALSE, children |-> <<>>, next |-> 1, attempted |-> <<>>]

\* The value of cli where main is not what is run.
NoCli == [MainNew(<<>>) EXCEPT !.pc = "none"]

\* The arguments main is given: at most MaxArgs strings.
MaxArgs == 3
ArgLists ==
  UNION {[1..n -> {"--export-elf", "--export-uncompressed", "in"}] : n \in 0..MaxArgs}

\* What the input path names: a file (a directory entry that is no
\* directory), or a directory with at most MaxChildren entries.  An entry
\* is a directory ("dir") or a file: a well-formed NSO, a file without the
\* MOD0 magic, an NRO that declares more data than it holds.
MaxChildren == 2
FileOf(entry) ==
  CASE entry = "nso" -> [file |-> NsoFileBytes(P0, C0), lz4 |-> NoLz4]
    [] entry = "nomod" ->
         [file |-> ModuleImage([P0 EXCEPT !.rb = 4096, !.mod_magic = FALSE]), lz4 |-> NoLz4]
    [] entry = "nro_past" -> [file |-> NroFileBytes(P0, 16, 0, 16), lz4 |-> NoLz4]
    [] entry = "none" -> [file |-> <<>>, lz4 |-> NoLz4]
Listings == UNION {[1..n -> {"dir", "nso", "nomod", "nro_past"}] : n \in 0..MaxChildren}

Init ==
  /\ pc = "start"
  /\ \E in \in Inputs : file = in.file /\ lz4 = in.lz4
  /\ \E g \in Garbage : nso = NsoFileNew(g)
  /\ pooled \in BOOLEAN
  /\ shstrtab = StringTableNew(pooled)
  /\ elf = NoElf
  /\ unc = <<>>
  /\ prev = <<>>
  /\ run = 0
  /\ cli = NoCli

\* NsoFile nso; nso.Load(path)
DoLoad ==
  /\ pc = "start"
  /\ \E r \in {Load(nso, file, lz4)} :
       /\ nso' = r.n
       /\ pc' = IF r.ok THEN "loaded" ELSE "failed"
  /\ UNCHANGED <<file, lz4, pooled, shstrtab, elf, unc, prev, run, cli>>

\* nso.WriteElf(elf_path)
DoWriteElf ==
  /\ pc = "loaded"
  /\ \E order \in {"up", "down"},
        ub \in Outcomes(SegmentPastImage(nso) \/ Presence(nso).init_past_end) :
     \E r \in {WriteElf(nso, pooled, order, ub)} :
       /\ nso' = r.n
       /\ elf' = r.elf
       /\ shstrtab' = r.shstrtab
       /\ pc' = IF r.status = "written" THEN "elf_written" ELSE "elf_crashed"
  /\ UNCHANGED <<file, lz4, pooled, unc, prev, run, cli>>

\* nso.WriteUncompressedNso(uncompressed_path)
DoWriteUncompressedNso ==
  /\ pc = "elf_written"
  /\ \E ub \in Outcomes(UncompressedImageSize(nso) > Len(nso.image)) :
     \E r \in {WriteUncompressedNso(nso, ub)} :
       /\ unc' = r.data
       /\ pc' = IF r.status = "written" THEN "done" ELSE "nso_crashed"
  /\ UNCHANGED <<file, lz4, nso, pooled, shstrtab, elf, prev, run, cli>>

\* The program is run again, on the uncompressed NSO it wrote.
Rerun ==
  /\ pc = "done"
  /\ nso.file_type = "kNso"
  /\ run < MaxRuns
  /\ file' = unc
  /\ lz4' = NoLz4
  /\ prev' = unc
  /\ run' = run + 1
  /\ \E g \in Garbage : nso' = NsoFileNew(g)
  /\ shstrtab' = StringTableNew(pooled)
  /\ elf' = NoElf
  /\ unc' = <<>>
  /\ pc' = "start"
  /\ UNCHANGED <<pooled, cli>>

Next == DoLoad \/ DoWriteElf \/ DoWriteUncompressedNso \/ Rerun
Spec == Init /\ [][Next]_vars

(***************************************************************************)
(* The program from main on: the arguments, then one conversion or one per *)
(* entry of a directory.                                                   *)
(***************************************************************************)
\* What the calls of NsoToElf on a loaded file can do.
ConversionsOf(l, c, build) ==
  {WithFileWrite(r, write_ok) :
     r \in {NsoToElfLoaded(l, c.elf_path, c.uncompressed_path, build, order, ub) :
              order \in {"up", "down"}, ub \in Outcomes(ReadsPastImage(l))},
     write_ok \in BOOLEAN}

\* What NsoToElf(path, elf_path, uncompressed_path) can do on a directory
\* entry.
Conversions(entry, c, build) ==
  UNION {ConversionsOf(Load(NsoFileNew(g), FileOf(entry).file, FileOf(entry).lz4), c, build) :
           g \in Garbage}

MainOthers == <<pc, file, lz4, nso, pooled, shstrtab, elf, unc, prev, run>>

MainInit ==
  /\ pc = "main"
  /\ file = <<>>
  /\ lz4 = NoLz4
  /\ nso = NsoFileNew(0)
  /\ pooled = TRUE
  /\ shstrtab = StringTableNew(pooled)
  /\ elf = NoElf
  /\ unc = <<>>
  /\ prev = <<>>
  /\ run = 0
  /\ \E args \in ArgLists : cli = MainNew(args)

\* The end of main: return status.
MainReturn(m, status) == [m EXCEPT !.pc = "exit", !.ended = "returned", !.status = status]
\* The process is killed.
MainKilled(m) == [m EXCEPT !.pc = "exit", !.ended = "killed"]

\* if (argc < 2) { fputs(usage, stderr); return 1; }
MainStart ==
  /\ cli.pc = "main"
  /\ cli' = IF Len(cli.args) + 1 < 2
            THEN MainReturn([cli EXCEPT !.stderr = Append(@, "usage")], 1)
            ELSE [cli EXCEPT !.pc = "parse"]
  /\ UNCHANGED MainOthers

\* One round of for (int i = 1; i < argc; i++).
MainParse ==
  /\ cli.pc = "parse"
  /\ cli.c.i < Len(cli.args) + 1
  /\ \E c \in {ParseArg(cli.args, cli.c)} :
       cli' = IF c.unknown
              THEN MainReturn([cli EXCEPT !.c = c,
                                          !.stderr = @ \o <<"Unknown option", "usage">>], 1)
              ELSE [cli EXCEPT !.c = c]
  /\ UNCHANGED MainOthers

\* fs::path path(input_path); fs::is_directory(path).  A null input_path
\* is undefined behaviour: the process is killed, or the path is taken to
\* be empty and names no file.  Otherwise the path names a file or a
\* directory.
MainPath ==
  /\ cli.pc = "parse"
  /\ cli.c.i >= Len(cli.args) + 1
  /\ IF cli.c.input_path = nullptr
     THEN \/ cli' = MainKilled(cli)
          \/ cli' = [cli EXCEPT !.pc = "file", !.children = <<"none">>]
     ELSE \/ \E entry \in {"nso", "nomod", "nro_past"} :
               cli' = [cli EXCEPT !.pc = "file", !.children = <<entry>>]
          \/ \E listing \in Listings :
               cli' = [cli EXCEPT !.pc = "dir", !.is_directory = TRUE,
                                  !.children = listing]
  /\ UNCHANGED MainOthers

\* NsoToElf(path, elf_path, uncompressed_path); return 0;
MainFile ==
  /\ cli.pc = "file"
  /\ \E r \in Conversions(cli.children[1], cli.c, pooled) :
       cli' = IF r.ended = "killed"
              THEN MainKilled([cli EXCEPT !.attempted = Append(@, <<1, r.ended, r.ret>>)])
              ELSE MainReturn([cli EXCEPT !.attempted = Append(@, <<1, r.ended, r.ret>>)], 0)
  /\ UNCHANGED MainOthers

\* One round of the loop of File::iter_files, and return 0 after the last.
MainDir ==
  /\ cli.pc = "dir"
  /\ IF cli.next > Len(cli.children)
     THEN cli' = MainReturn(cli, 0)
     ELSE IF cli.children[cli.next] = "dir"
     THEN cli' = [cli EXCEPT !.next = @ + 1]
     ELSE \E r \in Conversions(cli.children[cli.next], cli.c, pooled) :
            cli' = IF r.ended = "killed"
                   THEN MainKilled([cli EXCEPT !.attempted =
                                                 Append(@, <<cli.next, r.ended, r.ret>>)])
                   ELSE [cli EXCEPT !.attempted = Append(@, <<cli.next, r.ended, r.ret>>),
                                    !.next = @ + 1]
  /\ UNCHANGED MainOthers

MainNext == MainStart \/ MainParse \/ MainPath \/ MainFile \/ MainDir
SpecMain == MainInit /\ [][MainNext]_vars

(***************************************************************************)
(* The claims.                                                             *)
(***************************************************************************)
\* C1: for every input that Load accepts, WriteElf emits, for each segment
\* i, a PT_LOAD with p_vaddr = mem_offset[i] and p_filesz = mem_size[i] whose
\* file bytes equal image[mem_offset[i] .. mem_offset[i] + mem_size[i]), and
\* the PT_LOAD of data has p_memsz = mem_size + bss_align.
C1_RoundTrip ==
  pc \in {"elf_written", "elf_crashed"} =>
    /\ pc = "elf_written"
    /\ \A i \in {kText, kRodata, kData} :
         LET ph == elf.phdrs[i + 1]
             mem_offset == SegMemOffset(nso.header, i)
             mem_size == SegMemSize(nso.header, i)
         IN  /\ ph.p_type = PT.LOAD
             /\ ph.p_vaddr = mem_offset
             /\ ph.p_filesz = mem_size
             /\ InBuf(nso.image, mem_offset, mem_size)
             /\ InBuf(elf.bytes, ph.p_offset, ph.p_filesz)
             /\ Slice(elf.bytes, ph.p_offset, ph.p_filesz)
                  = Slice(nso.image, mem_offset, mem_size)
             /\ (i = kData => ph.p_memsz = mem_size + SegBssAlign(nso.header, i))

\* C2: for every input that Load accepts, PT_DYNAMIC has p_filesz = (the
\* number of dynamic entries before the first zero tag + 1) *
\* sizeof(Elf64_Dyn), its address lies in the file range of one of the three
\* PT_LOADs, and the file bytes at its p_offset are those of the dynamic
\* table in the image.
C2_DynamicPreserved ==
  pc = "elf_written" =>
    LET ph == elf.phdrs[kData + 2]
    IN  /\ ph.p_type = PT.DYNAMIC
        /\ ph.p_filesz = SizeofElf64_Dyn * (DynCount(nso.image, nso.dynamic) + 1)
        /\ \E i \in 1..kNumSegment :
             /\ nso.dynamic >= elf.phdrs[i].p_vaddr
             /\ nso.dynamic < elf.phdrs[i].p_vaddr + elf.phdrs[i].p_filesz
        /\ InBuf(nso.image, nso.dynamic, ph.p_filesz)
        /\ InBuf(elf.bytes, ph.p_offset, ph.p_filesz)
        /\ Slice(elf.bytes, ph.p_offset, ph.p_filesz)
             = Slice(nso.image, nso.dynamic, ph.p_filesz)

\* C3, as claimed: in the emitted section header table, rela # 0 gives
\* .rela.dyn (sh_addr rela, sh_size relasz), jmprel # 0 with pltrelsz # 0
\* gives .rela.plt (jmprel, pltrelsz), hash # 0 gives .hash, gnu_hash # 0
\* gives .gnu.hash, init_array # 0 gives .init_array (init_array,
\* init_arraysz) and fini_array # 0 gives .fini_array (fini_array,
\* fini_arraysz).
C3_SectionCoverage ==
  pc = "elf_written" =>
    LET d == nso.dyn_info
        at(name, addr) == \E i \in DOMAIN elf.shdrs :
                            elf.shdrs[i].sec = name /\ elf.shdrs[i].sh_addr = addr
        has(name, addr, size) == \E i \in DOMAIN elf.shdrs :
                                   /\ elf.shdrs[i].sec = name
                                   /\ elf.shdrs[i].sh_addr = addr
                                   /\ elf.shdrs[i].sh_size = size
    IN  /\ d.rela # 0 => has(".rela.dyn", d.rela, d.relasz)
        /\ d.jmprel # 0 /\ d.pltrelsz # 0 => has(".rela.plt", d.jmprel, d.pltrelsz)
        /\ d.hash # 0 => at(".hash", d.hash)
        /\ d.gnu_hash # 0 => at(".gnu.hash", d.gnu_hash)
        /\ d.init_array # 0 => has(".init_array", d.init_array, d.init_arraysz)
        /\ d.fini_array # 0 => has(".fini_array", d.fini_array, d.fini_arraysz)

\* C3, amended: in every section header table WriteElf emits, rela # 0 gives
\* .rela.dyn (rela, relasz), hash # 0 gives .hash and gnu_hash # 0 gives
\* .gnu.hash; .rela.plt (jmprel, pltrelsz) is there when jmprel # 0,
\* pltrelsz # 0, pltgot # 0 and the table at jmprel holds an
\* R_AARCH64_JUMP_SLOT entry (one whose r_offset + 8 is not zero);
\* .init_array and .fini_array are there when the address and the size are
\* both non-zero.
C3_SectionCoverageAmended ==
  pc = "elf_written" =>
    LET d == nso.dyn_info
        at(name, addr) == \E i \in DOMAIN elf.shdrs :
                            elf.shdrs[i].sec = name /\ elf.shdrs[i].sh_addr = addr
        has(name, addr, size) == \E i \in DOMAIN elf.shdrs :
                                   /\ elf.shdrs[i].sec = name
                                   /\ elf.shdrs[i].sh_addr = addr
                                   /\ elf.shdrs[i].sh_size = size
        jump_slot == \E j \in 0..(d.pltrelsz \div SizeofElf64_Rela - 1) :
                       /\ RdU32(nso.image, d.jmprel + SizeofElf64_Rela * j + 8)
                            = R_AARCH64_JUMP_SLOT
                       /\ RdU64(nso.image, d.jmprel + SizeofElf64_Rela * j) + 8 # 0
    IN  /\ d.rela # 0 => has(".rela.dyn", d.rela, d.relasz)
        /\ d.jmprel # 0 /\ d.pltrelsz # 0 /\ d.pltgot # 0 /\ jump_slot
             => has(".rela.plt", d.jmprel, d.pltrelsz)
        /\ d.hash # 0 => at(".hash", d.hash)
        /\ d.gnu_hash # 0 => at(".gnu.hash", d.gnu_hash)
        /\ d.init_array # 0 /\ d.init_arraysz # 0
             => has(".init_array", d.init_array, d.init_arraysz)
        /\ d.fini_array # 0 /\ d.fini_arraysz # 0
             => has(".fini_array", d.fini_array, d.fini_arraysz)

\* An ELF was written with .rela.plt in it, for an input with jump slots.
C3_Witness ==
  /\ pc = "elf_written"
  /\ nso.dyn_info.jmprel # 0 /\ nso.dyn_info.pltrelsz # 0 /\ nso.dyn_info.pltgot # 0
  /\ \E i \in DOMAIN elf.shdrs :
       /\ elf.shdrs[i].sec = ".rela.plt"
       /\ elf.shdrs[i].sh_addr = nso.dyn_info.jmprel
       /\ elf.shdrs[i].sh_size = nso.dyn_info.pltrelsz
  /\ \E i \in DOMAIN elf.shdrs : elf.shdrs[i].sec = ".init_array"

\* C4: when ResolvePlt reports the PLT as present, the 32 bytes of the image
\* at plt_info.addr match the resolver pattern under the mask, no earlier
\* place of the searched buffer does, and plt_info.size = 32 + 16 *
\* (pltrelsz / sizeof(Elf64_Rela)).
C4_PltPattern ==
  nso.plt_found =>
    LET matches(a) == \A j \in 1..32 :
                        ByteAnd(nso.image[a + j], plt_mask[j])
                          = ByteAnd(plt_pattern[j], plt_mask[j])
        base == IF nso.file_type = "kMod" THEN 0 ELSE SegMemOffset(nso.header, kText)
        len == IF nso.file_type = "kMod" THEN Len(nso.image)
               ELSE SegMemSize(nso.header, kText)
    IN  /\ nso.plt_info.addr >= base
        /\ nso.plt_info.addr + 32 <= base + len
        /\ matches(nso.plt_info.addr)
        /\ \A a \in base..(nso.plt_info.addr - 1) : ~matches(a)
        /\ nso.plt_info.size
             = 32 + 16 * (nso.dyn_info.pltrelsz \div SizeofElf64_Rela)

\* The PLT was found in a text segment that holds the pattern twice.
C4_Witness ==
  /\ nso.plt_found
  /\ nso.file_type = "kNso"
  /\ \E a \in (nso.plt_info.addr + 1)
                ..(SegMemOffset(nso.header, kText) + SegMemSize(nso.header, kText) - 32) :
       \A j \in 1..32 : ByteAnd(nso.image[a + j], plt_mask[j])
                          = ByteAnd(plt_pattern[j], plt_mask[j])

\* C5: for an NSO input, if a segment has its compression flag set and the
\* LZ4 decoder returns a length other than its mem_size, Load fails and no
\* output is produced.
C5_DecodedLength ==
  (/\ Len(file) >= SizeofNsoHeader
   /\ Slice(file, 0, 4) = nso_magic
   /\ \E i \in {kText, kRodata, kData} :
        /\ FlagBit(HdrFlags(Slice(file, 0, SizeofNsoHeader)), i) # 0
        /\ lz4[i + 1].ret # SegMemSize(Slice(file, 0, SizeofNsoHeader), i))
    => pc \in {"start", "failed"} /\ elf = NoElf /\ unc = <<>>

\* C6, as claimed: for a raw MOD whose PLT is located and whose symtab <
\* strtab, Load succeeds when .dynsym holds 4 distinct st_shndx values
\* (SHN_UNDEF and values >= SHN_LORESERVE aside), and fails, with no output
\* written, when it holds another number of them.
C6_FourIndices ==
  (/\ pc # "start"
   /\ nso.file_type = "kMod"
   /\ nso.plt_found
   /\ nso.dyn_info.symtab < nso.dyn_info.strtab)
    => LET syms == iter_dynsym(nso)
           indices == {syms[i].shndx : i \in {i \in 1..Len(syms) :
                         syms[i].shndx # SHN_UNDEF /\ syms[i].shndx < SHN_LORESERVE}}
       IN  IF Cardinality(indices) = 4
           THEN pc # "failed"
           ELSE pc = "failed" /\ elf = NoElf /\ unc = <<>>

\* C6, amended: for a raw MOD whose PLT is located and whose symtab <
\* strtab, Load succeeds when .dynsym holds 4 distinct st_shndx values
\* (SHN_UNDEF and values >= SHN_LORESERVE aside) and a symbol of type
\* STT_SECTION whose st_shndx is the third smallest of them and whose
\* st_value has non-zero low 32 bits; in every other case Load fails and no
\* output is written.
C6_FourIndicesAmended ==
  (/\ pc # "start"
   /\ nso.file_type = "kMod"
   /\ nso.plt_found
   /\ nso.dyn_info.symtab < nso.dyn_info.strtab)
    => LET syms == iter_dynsym(nso)
           indices == {syms[i].shndx : i \in {i \in 1..Len(syms) :
                         syms[i].shndx # SHN_UNDEF /\ syms[i].shndx < SHN_LORESERVE}}
           third == CHOOSE x \in indices :
                      Cardinality({y \in indices : y < x}) = 2
           data_symbol == \E i \in 1..Len(syms) :
                            /\ syms[i].info % 16 = STT_SECTION
                            /\ syms[i].shndx = third
                            /\ U32(syms[i].value) # 0
       IN  IF Cardinality(indices) = 4 /\ data_symbol
           THEN pc # "failed"
           ELSE pc = "failed" /\ elf = NoElf /\ unc = <<>>

\* Load failed on a raw MOD with a PLT, symtab < strtab and 4 distinct
\* indices.
C6_Witness ==
  /\ pc = "failed"
  /\ nso.file_type = "kMod"
  /\ nso.plt_found
  /\ nso.dyn_info.symtab < nso.dyn_info.strtab
  /\ LET syms == iter_dynsym(nso)
     IN  Cardinality({syms[i].shndx : i \in {i \in 1..Len(syms) :
           syms[i].shndx # SHN_UNDEF /\ syms[i].shndx < SHN_LORESERVE}}) = 4

\* C7: a .plt section header is emitted exactly when ResolvePlt succeeded
\* for this input, and Load fails on a raw MOD for which it did not.
C7_PltIffResolved ==
  /\ pc = "elf_written" =>
       ((\E i \in DOMAIN elf.shdrs : elf.shdrs[i].sec = ".plt") <=> nso.plt_found)
  /\ (pc # "start" /\ nso.file_type = "kMod" /\ ~nso.plt_found) => pc = "failed"

\* C8: the file U that WriteUncompressedNso writes for an NSO loads as an
\* NSO, and the writer run on the load of U writes U again.
C8_Idempotent ==
  run > 0 => /\ pc # "failed"
             /\ pc = "done" => unc = prev

\* C9: the header WriteUncompressedNso writes is the loaded header with the
\* low 3 bits of flags cleared and every other bit of flags kept,
\* segments[i].file_offset = segments[i].mem_offset + sizeof(NsoHeader),
\* segment_file_sizes[i] = segments[i].mem_size, text.bss_align = 0x100 and
\* rodata.bss_align = 0; the body is image[0 .. data.mem_offset +
\* data.mem_size).
C9_UncompressedHeader ==
  pc = "done" =>
    LET h == nso.header
        flags == Patch(h, NsoHeaderOff.flags, U32LE(HdrFlags(h) - (HdrFlags(h) % 8)))
        text == SetSegFileSize(
                  SetSeg(flags, kText, SegMemOffset(h, kText) + SizeofNsoHeader,
                         SegMemOffset(h, kText), SegMemSize(h, kText), 256),
                  kText, SegMemSize(h, kText))
        rodata == SetSegFileSize(
                    SetSeg(text, kRodata, SegMemOffset(h, kRodata) + SizeofNsoHeader,
                           SegMemOffset(h, kRodata), SegMemSize(h, kRodata), 0),
                    kRodata, SegMemSize(h, kRodata))
        data == SetSegFileSize(
                  SetSeg(rodata, kData, SegMemOffset(h, kData) + SizeofNsoHeader,
                         SegMemOffset(h, kData), SegMemSize(h, kData), SegBssAlign(h, kData)),
                  kData, SegMemSize(h, kData))
        size == SegMemOffset(h, kData) + SegMemSize(h, kData)
    IN  /\ Len(unc) = SizeofNsoHeader + size
        /\ Slice(unc, 0, SizeofNsoHeader) = data
        /\ InBuf(nso.image, 0, size)
        /\ Slice(unc, SizeofNsoHeader, size) = Slice(nso.image, 0, size)

\* C10: in the StringTable, after the AddString calls of WriteElf, the
\* empty string is at offset 0, every other name added resolves through
\* GetOffset to an offset that is not zero, no name is stored twice (adding
\* a name again changes nothing), and the ranges [offset, offset + len + 1)
\* of the names stored are disjoint and cover [0, watermark).
C10_StringTable ==
  pc = "elf_written" =>
    LET st == shstrtab
        stored == {q[1] : q \in DOMAIN st.entries}
        \* the pointers the program hands to GetOffset
        lookups == {<<".text", 670>>, <<".rodata", 676>>, <<".data", 682>>, <<".bss", 688>>,
                    <<".init", 987>>, <<".fini", 1001>>, <<".dynstr", 1014>>,
                    <<".dynsym", 1033>>, <<".dynamic", 1050>>, <<".rela.dyn", 1064>>,
                    <<".plt", 1080>>, <<".got", 1103>>, <<".got.plt", 1118>>,
                    <<".rela.plt", 1136>>, <<".init_array", 1156>>, <<".fini_array", 1170>>,
                    <<".hash", 1188>>, <<".gnu.hash", 1217>>, <<".note", 1233>>,
                    <<".eh_frame_hdr", 1248>>, <<".eh_frame", 1259>>, <<".shstrtab", 1272>>}
    IN  /\ \E q \in DOMAIN st.entries : q[1] = "" /\ st.entries[q] = 0
        /\ \A l \in lookups :
             l[1] \in stored =>
               /\ GetOffset(st, Lit(l[1], l[2], pooled)) # 0
               /\ AddString(st, Lit(l[1], l[2], pooled)) = st
        /\ \A q1, q2 \in DOMAIN st.entries : q1[1] = q2[1] => q1 = q2
        /\ \A q1, q2 \in DOMAIN st.entries :
             q1 # q2 => \/ st.entries[q1] + strlen(q1) + 1 <= st.entries[q2]
                        \/ st.entries[q2] + strlen(q2) + 1 <= st.entries[q1]
        /\ \A b \in 0..(st.watermark - 1) :
             \E q \in DOMAIN st.entries :
               st.entries[q] <= b /\ b < st.entries[q] + strlen(q) + 1

\* C11: two runs of Load and WriteElf on the same input bytes write the same
\* ELF bytes: whatever the NsoFile object held before Load, whichever way
\* the known-sections map is iterated, the outcome is one and the same.
C11_Determinism ==
  (pc = "start" /\ run = 0) =>
    LET outcome(g, order) ==
          LET l == Load(NsoFileNew(g), file, lz4)
          IN  IF ~l.ok THEN {<<"failed">>}
              ELSE {LET r == WriteElf(l.n, pooled, order, ub)
                    IN  IF r.status = "written" THEN r.elf.bytes ELSE <<"crashed">> :
                      ub \in Outcomes(SegmentPastImage(l.n) \/ Presence(l.n).init_past_end)}
    IN  Cardinality(UNION {outcome(g, order) : g \in Garbage, order \in {"up", "down"}}) = 1

\* C12, as claimed: after every successful Load (NSO, NRO or raw MOD),
\* mem_offset[rodata] = mem_offset[text] + mem_size[text] and
\* mem_offset[data] = mem_offset[rodata] + mem_size[rodata].
C12_SegmentTable ==
  pc \notin {"start", "failed"} =>
    LET h == nso.header
    IN  /\ SegMemOffset(h, kRodata) = SegMemOffset(h, kText) + SegMemSize(h, kText)
        /\ SegMemOffset(h, kData) = SegMemOffset(h, kRodata) + SegMemSize(h, kRodata)

\* C12, amended: after a successful Load of a raw MOD, mem_offset[text] = 0,
\* mem_offset[rodata] = ALIGN_UP(mem_size[text], 0x1000) and mem_offset[data]
\* = mem_offset[rodata] + mem_size[rodata]; after a successful Load of an
\* NSO or an NRO, the mem_offset and mem_size of each segment are the ones
\* the header of the file declares.
C12_SegmentTableAmended ==
  pc \notin {"start", "failed"} =>
    LET h == nso.header
    IN  /\ nso.file_type = "kMod" =>
              /\ SegMemOffset(h, kText) = 0
              /\ SegMemOffset(h, kRodata) = ((SegMemSize(h, kText) + 4095) \div 4096) * 4096
              /\ SegMemOffset(h, kData) = SegMemOffset(h, kRodata) + SegMemSize(h, kRodata)
        /\ nso.file_type = "kNso" =>
              \A i \in {kText, kRodata, kData} :
                /\ SegMemOffset(h, i) = RdU32(file, 16 + 16 * i + 4)
                /\ SegMemSize(h, i) = RdU32(file, 16 + 16 * i + 8)
        /\ nso.file_type = "kNro" =>
              \A i \in {kText, kRodata, kData} :
                /\ SegMemOffset(h, i) = RdU32(file, 16 + 16 + 8 * i)
                /\ SegMemSize(h, i) = RdU32(file, 16 + 16 + 8 * i + 4)

\* A raw MOD was loaded whose .text does not end on a page boundary.
C12_Witness ==
  /\ pc = "loaded"
  /\ nso.file_type = "kMod"
  /\ SegMemSize(nso.header, kText) % 4096 # 0
  /\ SegMemOffset(nso.header, kRodata) = 4096

\* C13: in the section header table written, .text, .rodata and .data have a
\* header when the segment's mem_size > 0, and .bss has one when
\* data.bss_align > 0, of type SHT_NOBITS with sh_addr = data.mem_offset +
\* data.mem_size and sh_size = data.bss_align, whatever st_shndx values
\* .dynsym holds.
C13_CanonicalSections ==
  pc = "elf_written" =>
    LET h == nso.header
        named(name) == {i \in DOMAIN elf.shdrs : elf.shdrs[i].sec = name}
    IN  /\ SegMemSize(h, kText) > 0 => named(".text") # {}
        /\ SegMemSize(h, kRodata) > 0 => named(".rodata") # {}
        /\ SegMemSize(h, kData) > 0 => named(".data") # {}
        /\ SegBssAlign(h, kData) > 0 =>
              \E i \in named(".bss") :
                /\ elf.shdrs[i].sh_type = SHT.NOBITS
                /\ elf.shdrs[i].sh_addr = SegMemOffset(h, kData) + SegMemSize(h, kData)
                /\ elf.shdrs[i].sh_size = SegBssAlign(h, kData)

\* The number of positional arguments from the i-th argument on: an option
\* takes the argument after it as its value.
RECURSIVE PositionalCount(_, _)
PositionalCount(args, i) ==
  IF i > Len(args) THEN 0
  ELSE IF args[i] \in {"--export-elf", "--export-uncompressed"}
       THEN PositionalCount(args, i + 2)
       ELSE 1 + PositionalCount(args, i + 1)

\* C14: main exits with status 1, after printing the usage to stderr, on
\* every usage error (no arguments, a second positional argument, options
\* only and no input path), and exits with status 0 otherwise.
C14_ExitStatus ==
  cli.pc = "exit" =>
    IF Len(cli.args) = 0 \/ PositionalCount(cli.args, 1) # 1
    THEN /\ cli.ended = "returned"
         /\ cli.status = 1
         /\ \E i \in DOMAIN cli.stderr : cli.stderr[i] = "usage"
    ELSE cli.ended = "returned" /\ cli.status = 0

\* C15: in directory mode NsoToElf is called exactly once for every entry
\* that is no directory, one after the other in the order of the
\* enumeration, and once main has ended every such entry was attempted,
\* whatever became of the entries before it.
C15_EveryChildOnce ==
  cli.is_directory =>
    LET files == {i \in DOMAIN cli.children : cli.children[i] # "dir"}
        tried(k) == cli.attempted[k][1]
    IN  /\ \A k \in DOMAIN cli.attempted : tried(k) \in files
        /\ \A j, k \in DOMAIN cli.attempted : j < k => tried(j) < tried(k)
        /\ cli.pc = "exit" => files = {tried(k) : k \in DOMAIN cli.attempted}

\* C16: a file is written to the ELF path or to the uncompressed-NSO path
\* only after Load returned success for the input; the ELF written is the
\* whole buffer (headers, string table and the three segments); and when
\* Load fails the conversion ends as failed with nothing written.
C16_NoPartialFiles ==
  /\ elf # NoElf =>
        /\ pc \in {"elf_written", "done", "nso_crashed"}
        /\ Len(elf.bytes) = elf.shstrtab.offset + elf.shstrtab.size
                              + SegMemSize(nso.header, kText) + SegMemSize(nso.header, kRodata)
                              + SegMemSize(nso.header, kData)
        /\ elf.shstrtab.offset = SizeofElf64_Ehdr + SizeofElf64_Phdr * Len(elf.phdrs)
                                   + SizeofElf64_Shdr * elf.ehdr.e_shnum
  /\ unc # <<>> => pc = "done"
  /\ pc = "failed" => elf = NoElf /\ unc = <<>>
  /\ pc \in {"start", "loaded", "elf_crashed"} => elf = NoElf /\ unc = <<>>

\* Both files were written, after a Load that succeeded.
C16_Witness ==
  pc = "done" /\ elf # NoElf /\ unc # <<>> /\ nso.file_type # "kUnknown"

\* The tables before and after each of the insertions from the i-th on, s
\* being the table before the i-th.
RECURSIVE InsertionTrace(_, _, _, _)
InsertionTrace(w, phdrs, s, i) ==
  IF i > 18 \/ ~Done(s) THEN <<s>>
  ELSE <<s>> \o InsertionTrace(w, phdrs,
                               InsertSection(s, SectionAt(w, phdrs, s, i), w.order), i + 1)

\* The insertions of WriteElf on the loaded file, the known-sections map
\* iterated in the given order: [w, phdrs, t], t[i] being the table before
\* the i-th insertion and t[19] the table written.
InsertionsOf(w, phdrs) ==
  [w |-> w, phdrs |-> phdrs,
   t |-> InsertionTrace(w, phdrs,
           [shdrs |-> KnownShdrs(w.k, phdrs, w.layout.num_shdrs),
            known_sections |-> w.k.known_sections, num_shdrs |-> w.layout.num_shdrs,
            ret |-> SHN_UNDEF, failed |-> {}, dynstr_shndx |-> SHN_UNDEF,
            dynsym_shndx |-> SHN_UNDEF, plt_shndx |-> SHN_UNDEF], 1)]
InsertionsMeasured(w) == InsertionsOf(w, ProgramHeaders(w.n, w.eh_info, w.layout))
Insertions(order) ==
  InsertionsMeasured(WriteElfMeasured(nso, ProfileSections(nso, pooled), Presence(nso),
                                      MeasureFrame(nso.image, nso.eh_info.hdr_addr),
                                      pooled, order))

\* The i-th insertion of r follows the policy: it takes a slot that was
\* SHT_NULL and leaves every other slot as it was; the slot is the lowest
\* free one from 1 on, or for an ordered insertion whose sh_addr lies in a
\* known section the lowest free one above that section's index, or the
\* lowest free one from 1 on where none is free above it.
FollowsPolicy(r, i) ==
  LET sec == SectionAt(r.w, r.phdrs, r.t[i], i)
      before == r.t[i]
      after == r.t[i + 1]
      free(from) == {x \in from..(before.num_shdrs - 1) : before.shdrs[x].sh_type = SHT.NULL}
      lowest(from) == CHOOSE x \in free(from) : \A y \in free(from) : x <= y
      hit == {x \in DOMAIN before.known_sections :
                sec.shdr.sh_addr >= before.known_sections[x].sh_addr
                  /\ sec.shdr.sh_addr < before.known_sections[x].sh_addr
                                          + before.known_sections[x].sh_size}
  IN  IF ~sec.c THEN after.shdrs = before.shdrs
      ELSE /\ after.ret \in free(1)
           /\ after.shdrs[after.ret] = sec.shdr
           /\ sec.shdr.sh_type # SHT.NULL
           /\ \A x \in DOMAIN before.shdrs : x # after.ret => after.shdrs[x] = before.shdrs[x]
           /\ IF sec.ordered /\ hit # {}
              THEN \E k \in hit : IF free(k + 1) # {} THEN after.ret = lowest(k + 1)
                                   ELSE after.ret = lowest(1)
              ELSE after.ret = lowest(1)

C18_SlotSufficiency ==
  /\ pc = "loaded" =>
        \A order \in {"up", "down"} :
          LET w == Insertions(order).w
          IN  /\ \A x \in DOMAIN w.k.known_sections : x >= 1 /\ x < w.layout.num_shdrs
              /\ LET r == Insertions(order)
                 IN  /\ \A i \in 1..18 :
                           SectionAt(r.w, r.phdrs, r.t[i], i).c =>
                             /\ r.t[i + 1].ret # SHN_UNDEF
                             /\ r.t[i + 1].ret < w.layout.num_shdrs
                     /\ r.t[19].failed = {}
                     /\ SectionAt(r.w, r.phdrs, r.t[18], 18).c
                     /\ r.t[19].shdrs[r.t[19].ret].sec = ".shstrtab"
  /\ pc = "elf_written" =>
        /\ elf.failed = {}
        /\ elf.ehdr.e_shnum = Cardinality(DOMAIN elf.shdrs)
        /\ elf.ehdr.e_shstrndx \in 1..(elf.ehdr.e_shnum - 1)
        /\ elf.shdrs[elf.ehdr.e_shstrndx].sec = ".shstrtab"
        /\ elf.shdrs[elf.ehdr.e_shstrndx].sh_type = SHT.STRTAB
        /\ elf.shdrs[elf.ehdr.e_shstrndx].sh_offset = elf.shstrtab.offset

\* An ELF was written whose table has no slot to spare: every index from 1
\* on holds a section, .plt among them, and .shstrtab took the last slot
\* that was free.
C18_Witness ==
  /\ pc = "elf_written"
  /\ \A x \in 1..(elf.ehdr.e_shnum - 1) : elf.shdrs[x].sh_type # SHT.NULL
  /\ \E x \in 1..(elf.ehdr.e_shnum - 1) : elf.shdrs[x].sec = ".plt"
  /\ elf.shdrs[elf.ehdr.e_shstrndx].sec = ".shstrtab"

\* The word indices, counted from dyn_info.init, of the words of the image
\* that equal 0xD65F03C0.
RetWordsFrom(n) ==
  {i \in 0..((Len(n.image) - n.dyn_info.init) \div 4 - 1) :
     Slice(n.image, n.dyn_info.init + 4 * i, 4) = RetWord}

\* C19: when dyn_info.init != 0 and the first word 0xD65F03C0 at or after
\* dyn_info.init is at word index k, .init is emitted with sh_size =
\* (k + 1) * 4; when the image holds no such word from dyn_info.init on, the
\* scan does not read outside the image, .init is not emitted and the
\* conversion goes on.
C19_InitScan ==
  /\ (pc = "loaded" /\ nso.dyn_info.init # 0) => ~Presence(nso).init_past_end
  /\ (pc = "elf_crashed" /\ nso.dyn_info.init # 0 /\ ~SegmentPastImage(nso)) =>
        RetWordsFrom(nso) # {}
  /\ (pc = "elf_written" /\ nso.dyn_info.init # 0) =>
        LET hits == RetWordsFrom(nso)
            inits == {x \in DOMAIN elf.shdrs : elf.shdrs[x].sec = ".init"}
        IN  IF hits = {} THEN inits = {}
            ELSE \E x \in inits :
                   /\ elf.shdrs[x].sh_addr = nso.dyn_info.init
                   /\ elf.shdrs[x].sh_size
                        = (1 + CHOOSE i \in hits : \A j \in hits : i <= j) * 4

\* The section headers of the ELF written that carry the given name.
HeadersNamed(name) == {x \in DOMAIN elf.shdrs : elf.shdrs[x].sec = name}

\* C20: when MeasureFrame fails on the header at eh_info.hdr_addr, the ELF
\* has no .eh_frame_hdr and no .eh_frame section header and no
\* PT_GNU_EH_FRAME program header other than an all-zero one; when it
\* succeeds, both section headers are there and the sizes of both are
\* multiples of 16.
C20_EhFrame ==
  pc = "elf_written" =>
    IF MeasureFrame(nso.image, nso.eh_info.hdr_addr).ok
    THEN /\ \E x \in HeadersNamed(".eh_frame_hdr") :
              /\ elf.shdrs[x].sh_addr = nso.eh_info.hdr_addr
              /\ elf.shdrs[x].sh_size = nso.eh_info.hdr_size
              /\ elf.shdrs[x].sh_size % 16 = 0
         /\ \E x \in HeadersNamed(".eh_frame") :
              /\ elf.shdrs[x].sh_addr = nso.eh_info.frame_addr
              /\ elf.shdrs[x].sh_size = nso.eh_info.frame_size
              /\ elf.shdrs[x].sh_size % 16 = 0
    ELSE /\ HeadersNamed(".eh_frame_hdr") = {}
         /\ HeadersNamed(".eh_frame") = {}
         /\ \A i \in DOMAIN elf.phdrs :
              \/ elf.phdrs[i].p_type # PT.GNU_EH_FRAME
              \/ \A f \in DOMAIN elf.phdrs[i] : elf.phdrs[i][f] = 0

\* The r_offset + 8 of the entries of the given type in the table of count
\* entries at tab.
RelaEnds(tab, count, type) ==
  {RelaOffset(nso.image, tab, i) + 8 :
     i \in {j \in 0..(count - 1) : RelaType(nso.image, tab, j) = type}}

\* The r_offset + 8 of the R_AARCH64_JUMP_SLOT entries of the JMPREL table.
JumpSlotEnds ==
  IF nso.dyn_info.jmprel = 0 THEN {}
  ELSE RelaEnds(nso.dyn_info.jmprel, nso.dyn_info.pltrelsz \div SizeofElf64_Rela,
                R_AARCH64_JUMP_SLOT)

MaxOf(S) == CHOOSE e \in S : \A f \in S : e >= f

\* C21: .got.plt is emitted iff pltgot != 0 and the JMPREL table holds an
\* R_AARCH64_JUMP_SLOT relocation; then sh_addr = pltgot, sh_addr + sh_size
\* is the largest r_offset + 8 of the jump slots, and sh_size has not wrapped
\* below zero.  .rela.plt is emitted iff .got.plt is, jmprel != 0 and
\* pltrelsz != 0.
C21_GotPlt ==
  pc = "elf_written" =>
    /\ HeadersNamed(".got.plt") # {} <=> (nso.dyn_info.pltgot # 0 /\ JumpSlotEnds # {})
    /\ \A x \in HeadersNamed(".got.plt") :
          /\ elf.shdrs[x].sh_addr = nso.dyn_info.pltgot
          /\ elf.shdrs[x].sh_addr + elf.shdrs[x].sh_size = MaxOf(JumpSlotEnds)
          /\ elf.shdrs[x].sh_size >= 0
    /\ HeadersNamed(".rela.plt") # {} <=>
          (HeadersNamed(".got.plt") # {} /\ nso.dyn_info.jmprel # 0
             /\ nso.dyn_info.pltrelsz # 0)

\* The offsets at or after from at which the image holds the 8-byte
\* little-endian offset of the dynamic table.
DynamicPointersFrom(from) ==
  {a \in from..(Len(nso.image) - 8) : Slice(nso.image, a, 8) = U64LE(nso.dynamic)}

\* C22: .got is emitted iff rela != 0 and the image holds the 8-byte
\* little-endian offset of the dynamic table at or after the end of .got.plt
\* (the largest r_offset + 8 of the jump slots); then sh_addr is the first
\* such offset and sh_size = max(sh_addr, largest r_offset + 8 of the
\* R_AARCH64_GLOB_DAT entries of the rela table) - sh_addr, which is not
\* negative.
C22_Got ==
  pc = "elf_written" =>
    LET found == IF JumpSlotEnds = {} THEN {} ELSE DynamicPointersFrom(MaxOf(JumpSlotEnds))
        glob == RelaEnds(nso.dyn_info.rela, nso.dyn_info.relasz \div SizeofElf64_Rela,
                         R_AARCH64_GLOB_DAT)
    IN  /\ HeadersNamed(".got") # {} <=> (nso.dyn_info.rela # 0 /\ found # {})
        /\ \A x \in HeadersNamed(".got") :
              /\ elf.shdrs[x].sh_addr = CHOOSE a \in found : \A b \in found : a <= b
              /\ elf.shdrs[x].sh_size
                   = MaxOf({elf.shdrs[x].sh_addr} \cup glob) - elf.shdrs[x].sh_addr
              /\ elf.shdrs[x].sh_size >= 0

\* An ELF was written with a .got that starts at a pointer to the dynamic
\* table which is not the first one in the image, and that reaches to the
\* end of a GLOB_DAT relocation.
C22_Witness ==
  /\ pc = "elf_written"
  /\ \E x \in HeadersNamed(".got") :
        /\ elf.shdrs[x].sh_size > 0
        /\ DynamicPointersFrom(0) \ DynamicPointersFrom(elf.shdrs[x].sh_addr) # {}

\* C23: in the ELF written the .shstrtab bytes start right after the section
\* header array, at e_shoff + e_shentsize * e_shnum; the text PT_LOAD's
\* p_offset is that offset plus the length of the string table rounded up
\* to 16; each following PT_LOAD's p_offset is the previous p_offset +
\* p_filesz; the data PT_LOAD ends at the end of the file; so the header,
\* the program headers, the section headers, .shstrtab and the three
\* segments do not overlap.
C23_FileLayout ==
  pc = "elf_written" =>
    LET e == elf.ehdr
        strtab == e.e_shoff + e.e_shentsize * e.e_shnum
        buffer == elf.shstrtab.buffer
    IN  /\ e.e_phoff = e.e_ehsize
        /\ e.e_shoff = e.e_phoff + e.e_phentsize * e.e_phnum
        /\ elf.shstrtab.offset = strtab
        /\ Slice(elf.bytes, strtab, Len(buffer)) = buffer
        /\ elf.shdrs[e.e_shstrndx].sh_offset = strtab
        /\ elf.phdrs[1].p_offset = strtab + ALIGN_UP(Len(buffer), 16)
        /\ elf.phdrs[2].p_offset = elf.phdrs[1].p_offset + elf.phdrs[1].p_filesz
        /\ elf.phdrs[3].p_offset = elf.phdrs[2].p_offset + elf.phdrs[2].p_filesz
        /\ elf.phdrs[3].p_offset + elf.phdrs[3].p_filesz = Len(elf.bytes)
        /\ \A i \in 1..3 : elf.phdrs[i].p_type = PT.LOAD /\ elf.phdrs[i].p_filesz >= 0
        /\ Slice(elf.bytes, 0, 4) = <<127, 69, 76, 70>>

\* An ELF was written whose string table has a length that is not a
\* multiple of 16 and whose three segments have bytes in the file.
C23_Witness ==
  /\ pc = "elf_written"
  /\ Len(elf.shstrtab.buffer) % 16 # 0
  /\ \A i \in 1..3 : elf.phdrs[i].p_filesz > 0

\* The buffer holds the four bytes of magic at offset at.
MagicAt(buf, at, magic) == Len(buf) >= at + 4 /\ Slice(buf, at, 4) = magic

\* C24: Load classifies the input as NSO when NSO0 is at offset 0, otherwise
\* as NRO when NRO0 is at offset 16, and as raw MOD only when neither
\* matched; it succeeds only if magic_offset + sizeof(ModHeader) lies within
\* the buffer and the bytes at magic_offset are MOD0; and an NRO whose
\* header file_size is not the length of the file is rejected, not loaded
\* as a raw MOD.
C24_Recognition ==
  /\ pc = "loaded" =>
        /\ nso.file_type = IF MagicAt(file, 0, nso_magic) THEN "kNso"
                           ELSE IF MagicAt(file, nro_offset, nro_magic) THEN "kNro"
                           ELSE "kMod"
        /\ LET buf == IF nso.file_type = "kNso" THEN nso.image ELSE file
           IN  /\ Len(buf) >= SizeofModPointer
               /\ RdU32(buf, 4) + SizeofModHeader <= Len(buf)
               /\ Slice(buf, RdU32(buf, 4), 4) = mod_magic
  /\ (/\ ~MagicAt(file, 0, nso_magic)
      /\ MagicAt(file, nro_offset, nro_magic)
      /\ Len(file) >= nro_offset + NroHeaderOff.file_size + 4
      /\ RdU32(file, nro_offset + NroHeaderOff.file_size) # Len(file))
       => pc \in {"start", "failed"}
====
